---- MODULE Spec2Model ----
(***************************************************************************)
(* A model of the large-scale-structure pipeline stages of                 *)
(* cora/signal/lss.py (and the parts of cora/signal/corrfunc.py that they  *)
(* call).  A float is an exact rational <<numerator, denominator>> in      *)
(* lowest terms, or one of the non-finite values <<1, 0>> (inf), <<-1, 0>> *)
(* (-inf) and <<0, 0>> (nan); numpy arrays are sequences (1-based here,    *)
(* 0-based in the source); Python's None is the empty tuple and a present  *)
(* value v is <<v>>.                                                       *)
(***************************************************************************)
EXTENDS Integers, Sequences, FiniteSets, TLC

\* ------------------------------------------------------------------------
\* Bounds of the model
\* ------------------------------------------------------------------------
\* how many times GenerateInitialLSS.process is called in one behaviour
MaxCalls == 4
\* the largest num_sims that is configured
MaxSims == 2
\* how many field objects a behaviour of the stage pipeline may allocate
MaxObj == 4
\* how many in-place shot-noise applications a behaviour may perform
MaxNoise == 1

\* ------------------------------------------------------------------------
\* Option values and exact rational arithmetic
\* ------------------------------------------------------------------------
None == <<>>
Some(v) == <<v>>
IsNone(o) == o = <<>>
Get(o) == o[1]

\* a local name of the source: the value v, computed once, under the name
\* that F gives it
Bind(v, F(_)) == F(v)

Abs(x) == IF x < 0 THEN -x ELSE x

RECURSIVE GCD(_, _)
GCD(a, b) == IF b = 0 THEN a ELSE GCD(b, a % b)

Sgn(x) == IF x < 0 THEN -1 ELSE IF x > 0 THEN 1 ELSE 0

\* the fraction n / d in lowest terms, g being the common divisor
NormBy(n, d, g) == <<(Sgn(d) * n) \div g, Abs(d) \div g>>
Norm(n, d) ==
    IF d = 0 THEN <<Sgn(n), 0>> ELSE NormBy(n, d, GCD(Abs(n), Abs(d)))

R(i) == <<i, 1>>
NaN == <<0, 0>>
Inf == <<1, 0>>
IsFinite(a) == a[2] # 0

\* the sum of two finite fractions whose denominators share the divisor g
RAddBy(a, b, g) ==
    Norm(a[1] * (b[2] \div g) + b[1] * (a[2] \div g), (a[2] \div g) * b[2])
\* IEEE addition: inf + inf = inf, inf - inf = nan, nan + x = nan
RAdd(a, b) ==
    IF a[2] = 1 /\ b[2] = 1 THEN <<a[1] + b[1], 1>>
    ELSE IF a = <<0, 1>> THEN b
    ELSE IF b = <<0, 1>> THEN a
    ELSE IF a[2] = 0 /\ b[2] = 0 THEN (IF a = b THEN a ELSE NaN)
    ELSE IF a[2] = 0 \/ b[2] = 0
    THEN <<Sgn(a[1] * b[2] + b[1] * a[2]), 0>>
    ELSE RAddBy(a, b, GCD(a[2], b[2]))
RNeg(a) == <<-a[1], a[2]>>
RSub(a, b) == RAdd(a, RNeg(b))
\* the product of two finite fractions, reduced crosswise by g and k
RMulBy(a, b, g, k) ==
    <<(a[1] \div g) * (b[1] \div k), (a[2] \div k) * (b[2] \div g)>>
\* IEEE multiplication: inf * 0 = nan
RMul(a, b) ==
    IF a[2] = 1 /\ b[2] = 1 THEN <<a[1] * b[1], 1>>
    ELSE IF a[2] = 0 \/ b[2] = 0 THEN <<Sgn(a[1] * b[1]), 0>>
    ELSE IF a[1] = 0 \/ b[1] = 0 THEN <<0, 1>>
    ELSE RMulBy(a, b, GCD(Abs(a[1]), b[2]), GCD(Abs(b[1]), a[2]))
\* numpy division: x / 0 = +-inf, 0 / 0 = nan, x / inf = 0
RDiv(a, b) ==
    IF b[1] = 0 \/ a[2] = 0 THEN <<Sgn(a[1] * b[2]), 0>>
    ELSE IF b[2] = 0 THEN <<0, 1>>
    ELSE RMul(a, <<Sgn(b[1]) * b[2], Abs(b[1])>>)
\* comparisons with nan are false
RLt(a, b) ==
    /\ a # NaN /\ b # NaN /\ a # b
    /\ IF a[2] = 0 THEN a[1] < 0
       ELSE IF b[2] = 0 THEN b[1] > 0
       ELSE a[1] * b[2] < b[1] * a[2]
\* numpy's elementwise !=: nan differs from everything, itself included
RNeq(a, b) == a # b \/ a = NaN
RAbs(a) == <<Abs(a[1]), a[2]>>

\* an array holds its values: a one-dimensional array as a tuple and a
\* two-dimensional array as a tuple of tuples
Vec(s) == s \o <<>>
Mat(m) == Vec([i \in 1..Len(m) |-> Vec(m[i])])

\* the sum of the entries lo..hi of s, by pairwise summation
RECURSIVE RSumRange(_, _, _)
RSumRange(s, lo, hi) ==
    IF lo > hi THEN R(0)
    ELSE IF lo = hi THEN s[lo]
    ELSE RAdd(RSumRange(s, lo, (lo + hi) \div 2),
              RSumRange(s, (lo + hi) \div 2 + 1, hi))

\* ndarray.sum of a one-dimensional array
RSum(s) == Bind(Vec(s), LAMBDA v : RSumRange(v, 1, Len(v)))

\* the mean of a one-dimensional array
RMean(s) == RDiv(RSum(s), R(Len(s)))

RECURSIVE RPow(_, _)
RPow(a, n) == IF n = 0 THEN R(1) ELSE RMul(a, RPow(a, n - 1))

\* ndarray.var: the mean of the squared deviations from the mean
RVar(s) ==
    Bind(Vec(s), LAMBDA v :
    Bind(RMean(v), LAMBDA m :
         RMean(Vec([k \in 1..Len(v) |-> RPow(RSub(v[k], m), 2)]))))

\* the transcendental functions are evaluated to a precision of
\* 1 / Precision
Precision == 16

\* the multiple of 1 / Precision nearest to the finite value a
Quantize(a) ==
    Norm((2 * a[1] * Precision + a[2]) \div (2 * a[2]), Precision)

\* np.exp: the second-order expansion of exp(|x|) at the rounded argument,
\* inverted for negative x, so that the value is monotone in x and
\* exp(0) = 1;
\* exp(inf) = inf, exp(-inf) = 0, exp(nan) = nan
RExp(x) ==
    IF x = NaN THEN NaN
    ELSE IF x[2] = 0 THEN (IF x[1] > 0 THEN Inf ELSE R(0))
    ELSE Bind(Quantize(RAbs(x)), LAMBDA a :
         Bind(RAdd(RAdd(R(1), a), RDiv(RMul(a, a), R(2))), LAMBDA e :
              Quantize(IF x[1] < 0 THEN RDiv(R(1), e) ELSE e)))

\* np.sinh
RSinh(x) == RDiv(RSub(RExp(x), RExp(RNeg(x))), R(2))

\* the largest integer whose square is at most n
RECURSIVE ISqrtIn(_, _, _)
ISqrtIn(n, lo, hi) ==
    IF hi - lo <= 1 THEN lo
    ELSE Bind((lo + hi) \div 2, LAMBDA mid :
              IF mid * mid <= n THEN ISqrtIn(n, mid, hi)
              ELSE ISqrtIn(n, lo, mid))
ISqrt(n) == ISqrtIn(n, 0, IF n < 46340 THEN n + 1 ELSE 46341)

\* x ** 0.5: nan for negative x
RSqrt(x) ==
    IF x = NaN \/ x[1] < 0 THEN NaN
    ELSE IF x[2] = 0 THEN Inf
    ELSE Norm(ISqrt((x[1] * Precision * Precision) \div x[2]), Precision)

\* x ** -0.5: inf for zero, nan for negative x
RInvSqrt(x) == RDiv(R(1), RSqrt(x))

\* np.pi
Pi == <<22, 7>>

\* all the entries of a two-dimensional array, row after row
RECURSIVE Flatten(_)
Flatten(m) == IF m = <<>> THEN <<>> ELSE Head(m) \o Flatten(Tail(m))

\* ------------------------------------------------------------------------
\* External collaborators: cosmology, pixelisation, sky realisation
\* ------------------------------------------------------------------------
\* the rest frequency of the 21cm line in MHz (units.nu21), rounded
Nu21 == 1420

\* Cosmology.comoving_distance: a monotonic function of redshift
comoving_distance(z) == RMul(R(2), z)

\* the largest integer that is at most the finite value a
RFloor(a) == a[1] \div a[2]

\* Cosmology.growth_factor: decreasing in redshift, not normalised to one
\* today (which is why the stages divide by growth_factor(0)); it halves
\* from one integer redshift to the next and is linear in between
growth_factor(z) ==
    IF z[1] < 0 THEN RSub(R(2), z)
    ELSE Bind(RFloor(z), LAMBDA k :
              RMul(Norm(2, 2 ^ k),
                   RSub(R(1), RDiv(RSub(z, R(k)), R(2)))))

\* Cosmology.growth_rate
growth_rate(z) == R(1)

\* healpy: the number of pixels of a map of resolution nside
Npix(nside) == 12 * nside * nside

\* the pixel axis of a container of resolution nside: arange(npix)
PixelAxis(nside) == [p \in 1..Npix(nside) |-> p - 1]

\* a standard-normal deviate of the generator seeded with seed: a
\* deterministic function of the seed and of the position in the stream
Deviate(seed, k) ==
    ((((seed + 1) * 31 + k * 17 + k * k * (seed + 2)) % 7) % 3) - 1

\* ------------------------------------------------------------------------
\* Containers (cora.signal.lsscontainers)
\* ------------------------------------------------------------------------
Zeros(n, m) == Mat([i \in 1..n |-> [p \in 1..m |-> R(0)]])

\* units.nu21 / frequencies - 1.0, elementwise
FreqToRedshift(freq) ==
    [i \in 1..Len(freq) |-> RSub(RDiv(R(Nu21), freq[i]), R(1))]

\* InitialLSS(cosmology, nside, redshift=...) or InitialLSS(..., freq=...):
\* the radial axis is given by redshift or by frequency, delta and phi are
\* allocated with shape (nz, npix)
InitialLSS(nside, freq, redshift) ==
    Bind(IF IsNone(freq) THEN redshift ELSE FreqToRedshift(Get(freq)),
         LAMBDA z :
        [kind |-> "InitialLSS",
         nside |-> nside,
         freq |-> freq,
         redshift |-> z,
         chi |-> [i \in 1..Len(z) |-> comoving_distance(z[i])],
         pixel |-> PixelAxis(nside),
         lightcone |-> TRUE,
         fixed_redshift |-> None,
         delta |-> Zeros(Len(z), Npix(nside)),
         phi |-> Zeros(Len(z), Npix(nside))])

\* BiasedLSS(lightcone=..., fixed_redshift=..., axes_from=f, attrs_from=f):
\* a new container with the axes of f and a freshly allocated delta
BiasedLSS(lightcone, fixed_redshift, f) ==
    [kind |-> "BiasedLSS",
     nside |-> f.nside,
     freq |-> f.freq,
     redshift |-> f.redshift,
     chi |-> f.chi,
     pixel |-> f.pixel,
     lightcone |-> lightcone,
     fixed_redshift |-> fixed_redshift,
     delta |-> Zeros(Len(f.chi), Len(f.pixel)),
     phi |-> <<>>]

\* a container that overwrites the most recent object instead of being new
Allocate_reuse(h, obj) ==
    [out |-> Len(h), heap |-> [h EXCEPT ![Len(h)] = obj]]

\* the object a constructor call creates: a new identity, distinct from
\* every object that exists, holding obj
Allocate(h, obj) == [out |-> Len(h) + 1, heap |-> Append(h, obj)]

\* ------------------------------------------------------------------------
\* corrfunc.corr_to_clarray and skysim.mkfullsky
\* ------------------------------------------------------------------------
\* the amplitude of the three correlation functions held by the
\* CorrelationFunction container: density-density, density-potential and
\* potential-potential
CorrAmp(tag) ==
    CASE tag = "corr0" -> 1
      [] tag = "corr2" -> 1
      [] tag = "corr4" -> 2

\* the three correlation functions held by the CorrelationFunction
\* container (density-density, density-potential, potential-potential),
\* evaluated at the separation r
CorrFn(tag, r) ==
    IF ~IsFinite(r) THEN NaN
    ELSE Quantize(RDiv(R(CorrAmp(tag)),
                       RAdd(R(1), IF tag = "corr2" THEN RMul(r, r) ELSE r)))

\* scipy.special.roots_legendre(M, mu=True): M nodes in (-1, 1), symmetric
\* about 0, their weights, and the sum of the weights
roots_legendre(M) ==
    [mu |-> [m \in 1..M |-> Norm(2 * m - 1 - M, M)],
     w |-> [m \in 1..M |-> Norm(2, M)],
     wsum |-> R(2)]

\* the Legendre polynomial P_l(v), by the three-term recurrence
RECURSIVE LegendreP(_, _)
LegendreP(l, v) ==
    IF l = 0 THEN R(1)
    ELSE IF l = 1 THEN v
    ELSE RDiv(RSub(RMul(R(2 * l - 1), RMul(v, LegendreP(l - 1, v))),
                   RMul(R(l - 1), LegendreP(l - 2, v))), R(l))

\* legendre_array(lmax, mu): P_l(mu_i) for l = 0 .. lmax, as scipy's lpn
\* returns them
legendre_array(lmax, mu) ==
    Mat([l \in 1..(lmax + 1) |->
          [i \in 1..Len(mu) |-> Quantize(LegendreP(l - 1, mu[i]))]])

\* the number of quadrature nodes that one batch is meant to hold
BatchSize == 50

\* np.array_split(np.arange(n), sections): raises for sections <= 0,
\* otherwise n % sections batches of n // sections + 1 indices followed by
\* batches of n // sections indices (indices count from 1 here)
array_split(n, sections) ==
    IF sections <= 0 THEN [ok |-> FALSE, val |-> <<>>]
    ELSE [ok |-> TRUE,
          val |-> [k \in 1..sections |->
                     [a \in 1..((n + sections - k) \div sections) |->
                        a + (k - 1) * (n \div sections)
                          + (IF k - 1 < n % sections THEN k - 1
                             ELSE n % sections)]]]

\* np.sort of a one-dimensional array
RECURSIVE SortInsert(_, _)
SortInsert(s, x) ==
    IF s = <<>> THEN <<x>>
    ELSE IF RLt(x, Head(s)) THEN <<x>> \o s
    ELSE <<Head(s)>> \o SortInsert(Tail(s), x)
RECURSIVE RSort(_)
RSort(s) == IF s = <<>> THEN <<>> ELSE SortInsert(RSort(Tail(s)), Head(s))

\* scipy.integrate.romb: the trapezoid estimate of the samples y, spaced
\* by dx, on 2^i intervals, and the entry (i, j) of the Romberg table
RombTrapezoid(y, dx, i) ==
    RMul(RMul(dx, R((Len(y) - 1) \div (2 ^ i))),
         RAdd(RDiv(RAdd(y[1], y[Len(y)]), R(2)),
              RSum([s \in 1..(2 ^ i - 1) |->
                      y[1 + s * ((Len(y) - 1) \div (2 ^ i))]])))
RECURSIVE RombEntry(_, _, _, _)
RombEntry(y, dx, i, j) ==
    IF j = 0 THEN RombTrapezoid(y, dx, i)
    ELSE RAdd(RombEntry(y, dx, i, j - 1),
              RDiv(RSub(RombEntry(y, dx, i, j - 1),
                        RombEntry(y, dx, i - 1, j - 1)),
                   R(4 ^ j - 1)))
\* the integral of 2^k + 1 samples: the last entry of the table
romb(y, dx, k) == RombEntry(Vec(y), dx, k, k)

\* "xhalf = np.abs(xsort[1] - xsort[0]) / 2.0" for xwidth = None
HalfWidth(xsort) == RDiv(RAbs(RSub(xsort[2], xsort[1])), R(2))

\* the point a of the 2^xromb + 1 points across the bin of the distance x:
\* "xarray[:, np.newaxis] + np.linspace(-xhalf, xhalf, xint)"
BinPoint(x, xhalf, xromb, a) ==
    RAdd(x, RAdd(RNeg(xhalf),
                 RMul(R(a - 1), RDiv(RMul(R(2), xhalf), R(2 ^ xromb)))))

\* a separation that leaves the second distance out of the cross term
Separation_onesided(x1, x2, ms) ==
    RSqrt(RAdd(RPow(RSub(x1, x2), 2),
               RMul(RMul(RMul(R(2), x1), x1), RSub(R(1), ms))))

\* "rc = ((x1 - x2) ** 2 + 2 * x1 * x2 * (1 - ms)) ** 0.5"
Separation(x1, x2, ms) ==
    RSqrt(RAdd(RPow(RSub(x1, x2), 2),
               RMul(RMul(RMul(R(2), x1), x2), RSub(R(1), ms))))

\* corr1 for the node ms and the shells at x1 and x2: the correlation at
\* their separation, or for xromb > 0 its Romberg integral over both bins
\* (last axis first), normalised by the bin area
ShellCorr(corr, x1, x2, ms, xromb, xhalf) ==
    IF xromb <= 0 THEN CorrFn(corr, Separation(x1, x2, ms))
    ELSE RDiv(
        romb([a \in 1..(2 ^ xromb + 1) |->
                romb([b \in 1..(2 ^ xromb + 1) |->
                        CorrFn(corr,
                               Separation(BinPoint(x1, xhalf, xromb, a),
                                          BinPoint(x2, xhalf, xromb, b),
                                          ms))],
                     RDiv(RMul(R(2), xhalf), R(2 ^ xromb)), xromb)],
             RDiv(RMul(R(2), xhalf), R(2 ^ xromb)), xromb),
        RPow(RMul(R(2), xhalf), 2))

\* corr_array after the loop over the batches: the nodes of a batch hold
\* corr1, a node of no batch stays zero
CorrArray(corr, xarray, xromb, xhalf, mu, batches) ==
    [m \in 1..Len(mu) |->
       IF \E k \in 1..Len(batches) : \E a \in 1..Len(batches[k]) :
              batches[k][a] = m
       THEN Mat([i \in 1..Len(xarray) |-> [j \in 1..Len(xarray) |->
                   ShellCorr(corr, xarray[i], xarray[j], mu[m], xromb,
                             xhalf)]])
       ELSE Zeros(Len(xarray), Len(xarray))]

\* "lm *= w * 4.0 * np.pi / wsum" and "clxx = np.dot(lm, corr_array)"
LegendreTransform(lm, rule, corr_array, xlen) ==
    Mat([l \in 1..Len(lm) |->
          [i \in 1..xlen |->
            Vec([j \in 1..xlen |->
              RSum([m \in 1..Len(rule.mu) |->
                 RMul(RDiv(RMul(RMul(lm[l][m], rule.w[m]),
                                RMul(R(4), Pi)), rule.wsum),
                      corr_array[m][i][j])])])]])

\* the body of corr_to_clarray once the nodes and the batches are known
ClArray(corr, lmax, xarray, xromb, rule, batches) ==
    [ok |-> TRUE,
     batches |-> batches,
     val |-> LegendreTransform(
                 legendre_array(lmax, rule.mu), rule,
                 Vec(CorrArray(corr, xarray, xromb,
                               IF xromb > 0 THEN HalfWidth(RSort(xarray))
                               ELSE R(0),
                               rule.mu, batches)),
                 Len(xarray))]

\* corr_to_clarray: roots_legendre raises for M = 0; with xromb > 0 the
\* half bin width is read from the first two sorted distances, which raises
\* for a single distance; the nodes are split into M // 50 batches by
\* np.array_split, which raises for zero sections.  The returned array has
\* shape (lmax + 1, xlen, xlen); the field batches records the node
\* indices of each pass of the loop.
corr_to_clarray(corr, lmax, xarray, xromb, q) ==
    IF q * lmax <= 0 \/ (xromb > 0 /\ Len(xarray) < 2)
       \/ ~array_split(q * lmax, (q * lmax) \div BatchSize).ok
    THEN [ok |-> FALSE, batches |-> <<>>, val |-> <<>>]
    ELSE ClArray(corr, lmax, xarray, xromb, roots_legendre(q * lmax),
                 array_split(q * lmax, (q * lmax) \div BatchSize).val)

\* an extended covariance with the density block first and the potential
\* block last
ExtendedCovariance_swapped(cla0, cla2, cla4, lmax, nz) ==
    [l \in 1..(lmax + 1) |->
      [a \in 1..(2 * nz) |->
        [b \in 1..(2 * nz) |->
          IF a <= nz /\ b <= nz THEN cla0[l][a][b]
          ELSE IF a <= nz /\ b > nz THEN cla2[l][a][b - nz]
          ELSE IF a > nz /\ b <= nz THEN cla2[l][a - nz][b]
          ELSE cla4[l][a - nz][b - nz]]]]

\* the extended covariance of process: potential block, cross blocks,
\* density block
ExtendedCovariance(cla0, cla2, cla4, lmax, nz) ==
    [l \in 1..(lmax + 1) |->
      [a \in 1..(2 * nz) |->
        [b \in 1..(2 * nz) |->
          IF a <= nz /\ b <= nz THEN cla4[l][a][b]
          ELSE IF a <= nz /\ b > nz THEN cla2[l][a][b - nz]
          ELSE IF a > nz /\ b <= nz THEN cla2[l][a - nz][b]
          ELSE cla0[l][a - nz][b - nz]]]]

\* the whole number nearest to a; inf and nan stay what they are
RRound(a) ==
    IF a[2] = 0 THEN a ELSE R((2 * a[1] + a[2]) \div (2 * a[2]))

\* skysim.mkfullsky(cla, nside, rng): one map per row of the covariance,
\* a deterministic function of the covariance and of the generator's seed;
\* the maps mix the deviates with whole-number weights
mkfullsky(cla, nside, seed) ==
    Bind(Len(cla[1]), LAMBDA n :
    Bind(Npix(nside), LAMBDA npix :
        Mat([m \in 1..n |->
          [p \in 1..npix |->
            RSum([j \in 1..n |->
                   RMul(RRound(cla[1][m][j]),
                        R(Deviate(seed, (j - 1) * npix + p)))])]])))

\* ------------------------------------------------------------------------
\* State
\* ------------------------------------------------------------------------
VARIABLES
    gi,       \* the GenerateInitialLSS task: its configuration and attributes
    calls,    \* one record per call of GenerateInitialLSS.process so far
    heap,     \* the field objects allocated so far; an object's id is its index
    last,     \* the last call of a field-evolving stage and the heap before it
    sn,       \* the AddCorrelatedShotNoise tasks
    nnoise,   \* the number of shot-noise applications so far
    made,     \* for every object of the heap, the stage that created it
    lib       \* a direct call of a function of the library and its result

vars == <<gi, calls, heap, last, sn, nnoise, made, lib>>

\* no function of the library has been called directly
NoLibCall == [op |-> "none", args |-> <<>>, done |-> FALSE, ret |-> <<>>]

\* ------------------------------------------------------------------------
\* GenerateInitialLSS
\* ------------------------------------------------------------------------
\* the configurations of the task that are explored
GIRedshifts == {None, Some(<<R(1)>>), Some(<<R(1), R(1)>>), Some(<<R(1), R(2)>>)}
GIFrequencies == {None, Some(<<R(710), R(355)>>)}
\* the end-to-end scenario of the specification: seed 42, nside 4, three
\* shells at z = 0.5, 1.0, 1.5, the defaults for everything else
ScenarioConfig ==
    [nside |-> 4,
     redshift |-> Some(<<<<1, 2>>, R(1), <<3, 2>>>>),
     frequencies |-> None,
     num_sims |-> 1,
     start_seed |-> 42,
     xromb |-> 2,
     leg_q |-> 4,
     comm_size |-> 1]

GIConfigs ==
    [nside : {1},
     redshift : GIRedshifts,
     frequencies : GIFrequencies,
     num_sims : (-1)..MaxSims,
     start_seed : {0, 5},
     xromb : {0, 1},
     leg_q : {4},
     comm_size : {1, 2}]
    \cup
    [nside : {1},
     redshift : GIRedshifts,
     frequencies : GIFrequencies,
     num_sims : (-1)..MaxSims,
     start_seed : {0, 5},
     xromb : {0},
     leg_q : {25},
     comm_size : {1, 2}]
    \cup
    [nside : {1},
     redshift : {Some(<<R(1), R(2)>>), Some(<<R(1), R(1)>>)},
     frequencies : {None},
     num_sims : {1},
     start_seed : {0},
     xromb : {1},
     leg_q : {25},
     comm_size : {1}]
    \cup {ScenarioConfig}

\* GenerateInitialLSS.setup: raises when neither redshift nor frequencies is
\* given (the seed attribute is then never set), otherwise seed = start_seed
GenerateInitialLSS_setup(cfg) ==
    IF IsNone(cfg.redshift) /\ IsNone(cfg.frequencies)
    THEN [state |-> "setup_failed", cfg |-> cfg,
          num_sims |-> cfg.num_sims, seed |-> None]
    ELSE [state |-> "ready", cfg |-> cfg,
          num_sims |-> cfg.num_sims, seed |-> Some(cfg.start_seed)]

\* "if self.num_sims == 0: raise pipeline.PipelineStopIteration()"
StopNow(num_sims) == num_sims = 0

\* a stride of two between successive realisations
NextSeed_stride2(seed) == seed + 2

\* "self.seed += 1"
NextSeed(seed) == seed + 1

\* the redshift property whenever it is configured
ProcessRedshift_prefers_redshift(cfg) ==
    IF ~IsNone(cfg.redshift) THEN cfg.redshift
    ELSE IF IsNone(cfg.frequencies) THEN cfg.redshift
    ELSE Some(FreqToRedshift(Get(cfg.frequencies)))

\* the redshifts process works with: those derived from frequencies when
\* frequencies is configured, the redshift property otherwise
ProcessRedshift(cfg) ==
    IF IsNone(cfg.frequencies) THEN cfg.redshift
    ELSE Some(FreqToRedshift(Get(cfg.frequencies)))

\* the part of process after "self.num_sims -= 1": the covariance, the
\* realisation and the container.  The result is the field, or an error
\* raised before the field is built.
GenerateField(cfg, seed) ==
    Bind(ProcessRedshift(cfg), LAMBDA zopt :
    IF IsNone(zopt) \/ IsNone(seed)
    THEN [ok |-> FALSE, cov |-> FALSE, field |-> <<>>]
    ELSE
    Bind(Get(zopt), LAMBDA redshift :
    Bind(Vec([i \in 1..Len(redshift) |-> comoving_distance(redshift[i])]),
         LAMBDA xa :
    Bind(3 * cfg.nside - 1, LAMBDA lmax :
    Bind(<<corr_to_clarray("corr0", lmax, xa, cfg.xromb, cfg.leg_q),
           corr_to_clarray("corr2", lmax, xa, cfg.xromb, cfg.leg_q),
           corr_to_clarray("corr4", lmax, xa, cfg.xromb, cfg.leg_q)>>,
         LAMBDA cl :
    Bind(Len(redshift), LAMBDA nz :
    IF ~(cl[1].ok /\ cl[2].ok /\ cl[3].ok)
    THEN [ok |-> FALSE, cov |-> TRUE, field |-> <<>>]
    ELSE
    Bind(ExtendedCovariance(cl[1].val, cl[2].val, cl[3].val, lmax, nz),
         LAMBDA cla :
    Bind(mkfullsky(cla, cfg.nside, Get(seed)), LAMBDA sky :
        [ok |-> TRUE, cov |-> TRUE,
         field |-> [InitialLSS(cfg.nside, cfg.frequencies, redshift)
                    EXCEPT !.phi = [i \in 1..nz |-> sky[i]],
                           !.delta = [i \in 1..nz |-> sky[nz + i]]]]))))))))

\* a check that lets a job of two processes through
NotParallel_above2(size) == size > 2

\* "if self.comm.size > 1: raise RuntimeError(...)"
NotParallel(size) == size > 1

\* a process that advances the seed before it computes the covariance
GenerateInitialLSS_process_seed_first(t) ==
    IF NotParallel(t.cfg.comm_size)
    THEN [task |-> t, result |-> "RuntimeError", rng |-> None, cov |-> FALSE,
          field |-> <<>>]
    ELSE IF StopNow(t.num_sims)
    THEN [task |-> t, result |-> "PipelineStopIteration", rng |-> None,
          cov |-> FALSE, field |-> <<>>]
    ELSE
    Bind([t EXCEPT !.num_sims = @ - 1,
                   !.seed = IF IsNone(@) THEN @ ELSE Some(NextSeed(Get(@)))],
         LAMBDA t1 :
    Bind(GenerateField(t.cfg, t.seed), LAMBDA g :
        IF ~g.ok
        THEN [task |-> t1, result |-> "error", rng |-> None, cov |-> g.cov,
              field |-> <<>>]
        ELSE [task |-> t1, result |-> "field", rng |-> t.seed, cov |-> TRUE,
              field |-> g.field]))

\* GenerateInitialLSS.process on the task t: the task afterwards, what the
\* call did ("field", "PipelineStopIteration", "RuntimeError" for a job of
\* several processes, "error" for any other exception), the seed handed to
\* the random generator, whether the covariance was computed and the field
\* returned
GenerateInitialLSS_process(t) ==
    IF NotParallel(t.cfg.comm_size)
    THEN [task |-> t, result |-> "RuntimeError", rng |-> None, cov |-> FALSE,
          field |-> <<>>]
    ELSE IF StopNow(t.num_sims)
    THEN [task |-> t, result |-> "PipelineStopIteration", rng |-> None,
          cov |-> FALSE, field |-> <<>>]
    ELSE
    Bind([t EXCEPT !.num_sims = @ - 1], LAMBDA t1 :
    Bind(GenerateField(t.cfg, t.seed), LAMBDA g :
        IF ~g.ok
        THEN [task |-> t1, result |-> "error", rng |-> None, cov |-> g.cov,
              field |-> <<>>]
        ELSE [task |-> [t1 EXCEPT !.seed = Some(NextSeed(Get(t.seed)))],
              result |-> "field", rng |-> t.seed, cov |-> TRUE,
              field |-> g.field]))

NoCall == [op |-> "none", cfg |-> <<>>, ins |-> <<>>, out |-> 0, err |-> "",
           evals |-> {}, pre |-> <<>>, created |-> FALSE, noise |-> <<>>]

Init ==
    /\ gi = [state |-> "new", cfg |-> <<>>, num_sims |-> 0, seed |-> None]
    /\ calls = <<>>
    /\ heap = <<>>
    /\ last = NoCall
    /\ sn = <<>>
    /\ nnoise = 0
    /\ made = <<>>
    /\ lib = NoLibCall

\* the pipeline constructs the task from its configuration and sets it up
GISetup(cfg) ==
    /\ gi.state = "new"
    /\ gi' = GenerateInitialLSS_setup(cfg)
    /\ UNCHANGED <<calls, heap, last, sn, nnoise, made, lib>>

\* one call of process
GIProcess ==
    /\ gi.state # "new"
    /\ Len(calls) < MaxCalls
    /\ \E r \in {GenerateInitialLSS_process(gi)} :
           /\ gi' = r.task
           /\ heap' = IF r.result = "field" THEN Append(heap, r.field) ELSE heap
           /\ made' = IF r.result = "field"
                      THEN Append(made, "GenerateInitialLSS") ELSE made
           /\ calls' = Append(calls,
                  [result |-> r.result,
                   rng |-> r.rng,
                   cov |-> r.cov,
                   out |-> IF r.result = "field" THEN Len(heap) + 1 ELSE 0,
                   num_sims_before |-> gi.num_sims,
                   seed_before |-> gi.seed,
                   num_sims_after |-> r.task.num_sims,
                   seed_after |-> r.task.seed])
    /\ UNCHANGED <<last, sn, nnoise, lib>>

Next ==
    \/ \E cfg \in GIConfigs : GISetup(cfg)
    \/ GIProcess

Spec == Init /\ [][Next]_vars

\* ------------------------------------------------------------------------
\* Properties of GenerateInitialLSS
\* ------------------------------------------------------------------------
\* the calls of process that returned a field, in order
FieldCalls == SelectSeq(calls, LAMBDA c : c.result = "field")

\* C1: after setup with start_seed = s the i-th call of process that
\* returns a field (i from 0) hands the seed s + i to the random generator,
\* for every i below num_sims
C1_SeedOfRealization ==
    gi.state = "ready" =>
        \A i \in 1..Len(FieldCalls) :
            (i - 1 < gi.cfg.num_sims) =>
                FieldCalls[i].rng = Some(gi.cfg.start_seed + (i - 1))

C1_Witness ==
    /\ gi.state = "ready"
    /\ gi.cfg.start_seed = 5
    /\ gi.cfg.num_sims = 2
    /\ Len(FieldCalls) = 2
    /\ FieldCalls[2].rng = Some(6)

\* C2 (as claimed): set up without error in a job of one process and with
\* num_sims = N >= 0, exactly the first N calls of process return a field,
\* every later call raises PipelineStopIteration, and a call that raises
\* PipelineStopIteration leaves num_sims and seed unchanged
C2_FirstNCallsReturnFields ==
    (gi.state = "ready" /\ gi.cfg.comm_size = 1 /\ gi.cfg.num_sims >= 0) =>
        \A k \in 1..Len(calls) :
            /\ (k <= gi.cfg.num_sims) => calls[k].result = "field"
            /\ (k > gi.cfg.num_sims) =>
                   calls[k].result = "PipelineStopIteration"
            /\ (calls[k].result = "PipelineStopIteration") =>
                   /\ calls[k].num_sims_after = calls[k].num_sims_before
                   /\ calls[k].seed_after = calls[k].seed_before

\* C3: in a job of more than one process every call of process raises the
\* fatal error before anything else: num_sims and seed keep their values,
\* no covariance is computed and no field is returned
C3_ParallelIsFatal ==
    (gi.state # "new" /\ gi.cfg.comm_size > 1) =>
        \A k \in 1..Len(calls) :
            /\ calls[k].result = "RuntimeError"
            /\ calls[k].num_sims_after = calls[k].num_sims_before
            /\ calls[k].seed_after = calls[k].seed_before
            /\ ~calls[k].cov
            /\ calls[k].out = 0
            /\ heap = <<>>

C3_Witness ==
    /\ gi.state = "ready"
    /\ gi.cfg.comm_size = 2
    /\ gi.cfg.num_sims = 2
    /\ gi.cfg.leg_q = 25
    /\ Len(calls) = 2
    /\ calls[2].result = "RuntimeError"

\* ------------------------------------------------------------------------
\* GenerateBiasedFieldBase and its subclasses
\* ------------------------------------------------------------------------
\* PolyModelSet.evaluate_poly: sum_n coeff[n] (z - z_eff)^n
evaluate_poly(z, z_eff, coeff) ==
    RSum([n \in 1..Len(coeff) |->
            RMul(coeff[n], RPow(RSub(z, z_eff), n - 1))])

\* a bias order of a stage at redshift z.  GenerateConstantBias returns
\* bias_L; GeneratePolynomialBias evaluates its polynomial and rescales it
\* as alpha_b * bias + alpha_b - 1.
BiasValue(model, z) ==
    IF model.kind = "constant" THEN model.bias_L
    ELSE RSub(RAdd(RMul(model.alpha_b,
                        evaluate_poly(z, model.z_eff, model.coeff)),
                   model.alpha_b), R(1))

\* "D = f.cosmology.growth_factor(z) / f.cosmology.growth_factor(0)"
GrowthD(z) ==
    Vec([i \in 1..Len(z) |-> RDiv(growth_factor(z[i]), growth_factor(R(0)))])

\* a first-order term without the growth factor
FirstOrderTerm_nogrowth(D, b1, delta) ==
    Mat([i \in 1..Len(delta) |->
      [p \in 1..Len(delta[i]) |-> RMul(b1[i], delta[i][p])]])

\* "(D * b1)[loff : loff + lshape, np.newaxis] * f.delta[:]"
FirstOrderTerm(D, b1, delta) ==
    Mat([i \in 1..Len(delta) |->
      [p \in 1..Len(delta[i]) |-> RMul(RMul(D[i], b1[i]), delta[i][p])]])

\* a second-order term that does not subtract the mean square
SecondOrderTerm_nomean(D, b2, delta) ==
    Mat([i \in 1..Len(delta) |->
      [p \in 1..Len(delta[i]) |->
        RMul(RMul(RPow(D[i], 2), b2[i]), RPow(delta[i][p], 2))]])

\* "d2m = (f.delta[:] ** 2).mean(axis=1)[:, np.newaxis]" and
\* "(D ** 2 * b2)[:, np.newaxis] * (f.delta[:] ** 2 - d2m)"
SecondOrderTerm(D, b2, delta) ==
    Bind(Vec([i \in 1..Len(delta) |->
                RMean([p \in 1..Len(delta[i]) |-> RPow(delta[i][p], 2)])]),
         LAMBDA d2m :
        Mat([i \in 1..Len(delta) |->
          [p \in 1..Len(delta[i]) |->
            RMul(RMul(RPow(D[i], 2), b2[i]),
                 RSub(RPow(delta[i][p], 2), d2m[i]))]]))

\* elementwise sum of two arrays of the same shape
MatAdd(a, b) ==
    Mat([i \in 1..Len(a) |-> [p \in 1..Len(a[i]) |-> RAdd(a[i][p], b[i][p])]])

\* a transform that subtracts the whole variance
lognormal_transform_whole_variance(field, axis) ==
    Mat([i \in 1..Len(field) |->
      [p \in 1..Len(field[i]) |->
        RSub(RExp(RSub(field[i][p],
                       RVar(IF IsNone(axis) THEN Flatten(field)
                            ELSE field[i]))), R(1))]])

\* lognormal_transform(field, out=field, axis=axis): subtract half the
\* variance taken along the pixel axis (axis = 1) or over the whole array
\* (axis = None), exponentiate, subtract one
lognormal_transform(field, axis) ==
    Bind(Vec([i \in 1..Len(field) |->
                RVar(IF IsNone(axis) THEN Flatten(field) ELSE field[i])]),
         LAMBDA var :
        Mat([i \in 1..Len(field) |->
          [p \in 1..Len(field[i]) |->
            RSub(RExp(RSub(field[i][p], RDiv(var[i], R(2)))), R(1))]]))

\* GenerateBiasedFieldBase.process(f) for a stage with configuration cfg;
\* cfg.b1 and cfg.b2 are None for an order whose _bias_n raises
\* NotImplementedError.  The result is the new field, or an error.
GenerateBiasedFieldBase_process(cfg, f) ==
    IF ~cfg.lightcone /\ IsNone(cfg.redshift)
    THEN [ok |-> FALSE, err |-> "TypeError", field |-> <<>>]
    ELSE
    Bind(BiasedLSS(cfg.lightcone, cfg.redshift, f), LAMBDA biased_field :
    Bind(Vec(IF cfg.lightcone THEN f.redshift
             ELSE [i \in 1..Len(f.chi) |-> Get(cfg.redshift)]), LAMBDA z :
    Bind(GrowthD(z), LAMBDA D :
    Bind(IF IsNone(cfg.b1) THEN biased_field.delta
         ELSE MatAdd(biased_field.delta, FirstOrderTerm(D,
                  Vec([i \in 1..Len(z) |-> BiasValue(Get(cfg.b1), z[i])]),
                  f.delta)), LAMBDA d1 :
    Bind(IF IsNone(cfg.b2) THEN d1
         ELSE MatAdd(d1, SecondOrderTerm(D,
                  Vec([i \in 1..Len(z) |-> BiasValue(Get(cfg.b2), z[i])]),
                  f.delta)), LAMBDA d2 :
        [ok |-> TRUE, err |-> "",
         field |-> [biased_field EXCEPT !.delta =
                      IF cfg.lognormal
                      THEN lognormal_transform(d2,
                               IF cfg.lightcone THEN Some(1) ELSE None)
                      ELSE d2]])))))

\* ------------------------------------------------------------------------
\* _calculate_width, exponential_FoG_kernel and FingersOfGod
\* ------------------------------------------------------------------------
\* _calculate_width(centres), for at least two centres (centres[1] is an
\* IndexError otherwise): interior widths first, then the first width from
\* the second, then the last width from the one before it
calculate_width(centres) ==
    Bind(Len(centres), LAMBDA n :
    Bind(Vec([k \in 1..n |->
            IF 1 < k /\ k < n
            THEN RDiv(RSub(centres[k + 1], centres[k - 1]), R(2))
            ELSE R(0)]), LAMBDA w0 :
    Bind([w0 EXCEPT ![1] =
            RMul(R(2), RSub(RSub(centres[2], RDiv(w0[2], R(2))),
                            centres[1]))], LAMBDA w1 :
    Bind([w1 EXCEPT ![n] =
            RMul(R(2), RSub(RSub(centres[n], RDiv(w1[n - 1], R(2))),
                            centres[n - 1]))], LAMBDA w2 :
        Vec([k \in 1..n |-> RAbs(w2[k])])))))

\* "def sinhc(x): return np.sinh(x) / x"
sinhc(x) == RDiv(RSinh(x), x)

\* the kernel without the normalisation of its rows
exponential_FoG_kernel_unnormalised(chi, sigmaP, D) ==
    Bind(Len(chi), LAMBDA n :
    Bind(Vec([i \in 1..n |-> RDiv(RSqrt(R(2)), sigmaP[i])]), LAMBDA a :
    Bind(calculate_width(chi), LAMBDA dchi :
        Mat([i \in 1..n |-> [j \in 1..n |->
          RMul(RDiv(RMul(RExp(RNeg(IF i = j
                                    THEN RDiv(RMul(a[1], dchi[j]), R(4))
                                    ELSE RMul(a[i],
                                              RAbs(RSub(chi[i], chi[j]))))),
                         sinhc(RDiv(RMul(a[IF i = j THEN 1 ELSE i], dchi[j]),
                                    R(IF i = j THEN 4 ELSE 2)))),
                    D[j]), D[i])]]))))

\* exponential_FoG_kernel(chi, sigmaP, D) for arrays sigmaP and D.
\* np.fill_diagonal is given the two-dimensional array
\* exp(-ar * dchi / 4) * sinhc(ar * dchi / 4) and writes its first len(chi)
\* entries in flattened order, its first row, along the diagonal.
exponential_FoG_kernel(chi, sigmaP, D) ==
    Bind(Len(chi), LAMBDA n :
    Bind(Vec([i \in 1..n |-> RDiv(RSqrt(R(2)), sigmaP[i])]), LAMBDA a :
    Bind(calculate_width(chi), LAMBDA dchi :
    \* off the diagonal exp(-a * chi_sep) * sinhc(a * dchi / 2), on the
    \* diagonal the first row of exp(-a * dchi / 4) * sinhc(a * dchi / 4)
    Bind(Mat([i \in 1..n |-> [j \in 1..n |->
           Bind(IF i = j THEN 1 ELSE i, LAMBDA r :
           Bind(IF i = j THEN RDiv(RMul(a[r], dchi[j]), R(4))
                ELSE RMul(a[r], RAbs(RSub(chi[i], chi[j]))), LAMBDA damp :
               RMul(RExp(RNeg(damp)),
                    sinhc(RDiv(RMul(a[r], dchi[j]),
                               R(IF i = j THEN 4 ELSE 2))))))]]),
         LAMBDA K0 :
    Bind(Mat([i \in 1..n |-> [j \in 1..n |->
           RDiv(K0[i][j], RSum(K0[i]))]]), LAMBDA K1 :
        Mat([i \in 1..n |-> [j \in 1..n |->
          RMul(RDiv(K1[i][j], D[j]), D[i])]]))))))

\* np.matmul(K, delta)
MatMul(K, delta) ==
    Mat([i \in 1..Len(K) |->
      [p \in 1..Len(delta[1]) |->
        RSum([j \in 1..Len(delta) |-> RMul(K[i][j], delta[j][p])])]])

\* a stage that is only turned off by a negative alpha_FoG
FoGOff_negative(alpha_FoG) == RLt(alpha_FoG, R(0))

\* "if self.alpha_FoG == 0.0: return field"
FoGOff(alpha_FoG) == alpha_FoG = R(0)

\* a stage that returns a copy of its input in every configuration
FingersOfGod_process_copy(cfg, id, h) ==
    Bind(Allocate(h, h[id]), LAMBDA a :
        [err |-> "", out |-> a.out, heap |-> a.heap, evals |-> {}])

\* FingersOfGod.process(field) for a stage with configuration cfg, where
\* field is the object id of the input in the heap h.  The result names
\* the object returned (out) and gives the heap afterwards.
FingersOfGod_process(cfg, id, h) ==
    Bind(h[id], LAMBDA field :
    IF FoGOff(cfg.alpha_FoG)
    THEN [err |-> "", out |-> id, heap |-> h, evals |-> {}]
    ELSE IF Len(field.chi) < 2
    THEN [err |-> "IndexError", out |-> 0, heap |-> h,
          evals |-> {"growth_factor", "sigma_P", "kernel"}]
    ELSE
    Bind(Vec([i \in 1..Len(field.redshift) |->
            growth_factor(field.redshift[i])]), LAMBDA D :
    Bind(Vec([i \in 1..Len(field.redshift) |->
            evaluate_poly(field.redshift[i], cfg.z_eff, cfg.FoG_coeff)]),
         LAMBDA sigmaP :
    Bind(exponential_FoG_kernel(field.chi,
             Vec([i \in 1..Len(sigmaP) |->
                RMul(cfg.alpha_FoG, sigmaP[i])]), D), LAMBDA K :
    Bind(Allocate(h, [BiasedLSS(field.lightcone, field.fixed_redshift,
                                field)
                      EXCEPT !.delta = MatMul(K, field.delta)]), LAMBDA a :
        [err |-> "", out |-> a.out, heap |-> a.heap,
         evals |-> {"growth_factor", "sigma_P", "kernel"}])))))

\* ------------------------------------------------------------------------
\* DynamicsBase, LinearDynamics
\* ------------------------------------------------------------------------
\* "(a != b).any()" for one-dimensional arrays: elementwise when the
\* lengths agree, broadcast when one of them has length one, and an
\* exception from numpy for any other pair of lengths
AnyDiffers(a, b) ==
    IF Len(a) = Len(b)
    THEN [raises |-> FALSE, any |-> \E k \in 1..Len(a) : a[k] # b[k]]
    ELSE IF Len(a) = 1
    THEN [raises |-> FALSE, any |-> \E k \in 1..Len(b) : a[1] # b[k]]
    ELSE IF Len(b) = 1
    THEN [raises |-> FALSE, any |-> \E k \in 1..Len(a) : a[k] # b[1]]
    ELSE [raises |-> TRUE, any |-> FALSE]

\* DynamicsBase._validate_fields: TRUE when the call returns normally
validate_fields(initial_field, biased_field) ==
    /\ AnyDiffers(initial_field.chi, biased_field.chi)
           = [raises |-> FALSE, any |-> FALSE]
    /\ AnyDiffers(biased_field.pixel, initial_field.pixel)
           = [raises |-> FALSE, any |-> FALSE]

\* DynamicsBase._get_props: the redshift of each slice, the container's
\* redshifts on the lightcone and fixed_redshift * ones_like(chi) otherwise
\* (a TypeError when fixed_redshift is None)
get_props(biased_field) ==
    IF biased_field.lightcone
    THEN [ok |-> TRUE, za |-> biased_field.redshift]
    ELSE IF IsNone(biased_field.fixed_redshift)
    THEN [ok |-> FALSE, za |-> <<>>]
    ELSE [ok |-> TRUE,
          za |-> [i \in 1..Len(biased_field.chi) |->
                    Get(biased_field.fixed_redshift)]]

\* the finite-difference radial derivative of f sampled at x (lssutil):
\* centred in the interior, one-sided at both ends
RadialDerivative(f, x) ==
    Mat([k \in 1..Len(x) |->
      Bind(IF k = 1 THEN 1 ELSE k - 1, LAMBDA lo :
      Bind(IF k = Len(x) THEN Len(x) ELSE k + 1, LAMBDA hi :
          [p \in 1..Len(f[k]) |->
            RDiv(RSub(f[hi][p], f[lo][p]), RSub(x[hi], x[lo]))]))])

\* lssutil.diff2(f, x, axis=0): needs as many samples as coordinates and at
\* least two of them
diff2(f, x) ==
    IF Len(f) # Len(x) \/ Len(x) < 2
    THEN [ok |-> FALSE, val |-> <<>>]
    ELSE [ok |-> TRUE, val |-> RadialDerivative(f, x)]

\* LinearDynamics.process with configuration cfg on the objects ini and
\* bia of the heap h
LinearDynamics_process(cfg, ini, bia, h) ==
    Bind(h[ini], LAMBDA initial_field :
    Bind(h[bia], LAMBDA biased_field :
    Bind(get_props(biased_field), LAMBDA props :
    IF ~validate_fields(initial_field, biased_field)
    THEN [err |-> "ValueError", out |-> 0, heap |-> h, created |-> FALSE]
    ELSE IF ~props.ok
    THEN [err |-> "TypeError", out |-> 0, heap |-> h, created |-> FALSE]
    ELSE
    Bind(props.za, LAMBDA za :
    Bind(GrowthD(za), LAMBDA D :
    Bind(Len(biased_field.delta), LAMBDA nb :
    Bind(Len(initial_field.delta), LAMBDA ni :
    IF ni # nb /\ ni # 1
    THEN [err |-> "ValueError", out |-> 0, heap |-> h, created |-> TRUE]
    ELSE
    \* D[:, np.newaxis] * initial_field.delta[:] broadcasts a single
    \* initial shell over the shells of the biased field
    Bind(Mat([i \in 1..nb |->
           [p \in 1..Len(biased_field.delta[i]) |->
             RAdd(biased_field.delta[i][p],
                  RMul(D[i], initial_field.delta[
                               IF ni = 1 THEN 1 ELSE i][p]))]]), LAMBDA lin :
    Bind(Vec([i \in 1..Len(za) |-> growth_rate(za[i])]), LAMBDA fr :
    Bind(IF cfg.redshift_space
         THEN diff2(initial_field.phi, biased_field.chi)
         ELSE [ok |-> TRUE, val |-> <<>>], LAMBDA d :
    IF ~d.ok
    THEN [err |-> "ValueError", out |-> 0, heap |-> h, created |-> TRUE]
    ELSE
    Bind(Allocate(h, [BiasedLSS(biased_field.lightcone,
                                biased_field.fixed_redshift, biased_field)
                      EXCEPT !.delta =
             IF ~cfg.redshift_space THEN lin
             ELSE Mat([i \in 1..nb |->
                    [p \in 1..Len(lin[i]) |->
                      RAdd(lin[i][p],
                           RMul(d.val[i][p],
                                RNeg(RMul(D[i], fr[i]))))]])]), LAMBDA a :
        [err |-> "", out |-> a.out, heap |-> a.heap,
         created |-> TRUE])))))))))))

\* ------------------------------------------------------------------------
\* The pixelisation primitive and the particle-mesh helpers
\* (healpy, cora.util.hputil, cora.util.pmesh, cora.signal.lssutil)
\* ------------------------------------------------------------------------
\* The sphere is tessellated into 3 * nside rings of 4 * nside pixels, and
\* angles are measured in units of the pixel spacing.
NCols(npix) == 4 * ISqrt(npix \div 12)
NRings(npix) == 3 * ISqrt(npix \div 12)
RingOf(p, npix) == (p - 1) \div NCols(npix)
ColOf(p, npix) == (p - 1) % NCols(npix)
\* the pixel of ring r and column c; columns wrap, rings stop at the poles
PixelAt(r, c, npix) ==
    (IF r < 0 THEN 0 ELSE IF r >= NRings(npix) THEN NRings(npix) - 1 ELSE r)
        * NCols(npix) + (c % NCols(npix)) + 1

\* sin(theta) at the centre of pixel p (hputil.ang_positions)
SinTheta(p, npix) ==
    IF RingOf(p, npix) = 0 \/ RingOf(p, npix) = NRings(npix) - 1
    THEN <<1, 2>> ELSE R(1)

\* lssutil.gradient(phi, chi): the radial derivative and the two angular
\* derivatives of phi, shape (3, nchi, npix); needs as many shells as
\* radial coordinates and at least two of them
gradient(phi, chi) ==
    IF Len(phi) # Len(chi) \/ Len(chi) < 2
    THEN [ok |-> FALSE, val |-> <<>>]
    ELSE
    Bind(Len(phi[1]), LAMBDA npix :
        [ok |-> TRUE,
         val |-> << RadialDerivative(phi, chi) >>
                 \o [c \in 1..2 |->
                      Mat([i \in 1..Len(phi) |-> [p \in 1..npix |->
                         RSub(phi[i][PixelAt(
                                  RingOf(p, npix) + (IF c = 1 THEN 1 ELSE 0),
                                  ColOf(p, npix) + (IF c = 2 THEN 1 ELSE 0),
                                  npix)],
                              phi[i][p])]])]])

\* pmesh.calculate_positions: the displaced ring and column coordinate of
\* the particle that starts at the centre of pixel p
NewAngPos(p, dtheta, dphi, npix) ==
    << RAdd(R(RingOf(p, npix)), dtheta), RAdd(R(ColOf(p, npix)), dphi) >>

\* the quarter of a pixel spacing nearest to the finite value a
Quarter(a) == Norm((8 * a[1] + a[2]) \div (2 * a[2]), 4)

\* healpy.get_interp_weights: the four pixels around a position, which is
\* resolved to a quarter of the pixel spacing, and their bilinear weights,
\* which sum to one
get_interp_weights(pos, npix) ==
    Bind(<<Quarter(pos[1]), Quarter(pos[2])>>, LAMBDA q :
    Bind(<<RFloor(q[1]), RFloor(q[2])>>, LAMBDA lo :
    Bind(<<RSub(q[1], R(lo[1])), RSub(q[2], R(lo[2]))>>, LAMBDA fr :
        \* the corners (ring, column), (ring, column + 1), (ring + 1,
        \* column), (ring + 1, column + 1)
        Vec([k \in 1..4 |->
           Bind((k - 1) \div 2, LAMBDA dr :
           Bind((k - 1) % 2, LAMBDA dc :
               <<PixelAt(lo[1] + dr, lo[2] + dc, npix),
                 RMul(IF dr = 1 THEN fr[1] ELSE RSub(R(1), fr[1]),
                      IF dc = 1 THEN fr[2] ELSE RSub(R(1), fr[2]))>>))]))))

\* the truncated Gaussian profile of the smoothed-particle kernels at k
\* cells from the centre: a particle denser than the mean (scaling below
\* one) is not spread
ProfileWeight(dense, k) ==
    IF dense THEN (IF k = 0 THEN R(1) ELSE R(0))
    ELSE (IF k = 0 THEN <<1, 2>> ELSE <<1, 4>>)

\* pmesh._pixel_weights: the pixel a position falls into and its eight
\* neighbours, with the weights of a truncated Gaussian profile normalised
\* to one; a particle denser than the mean (scaling below one) is not
\* spread
pixel_weights(pos, dense, npix) ==
    Bind(<<RFloor(RAdd(pos[1], <<1, 2>>)), RFloor(RAdd(pos[2], <<1, 2>>))>>,
         LAMBDA lo :
        Vec([k \in 1..9 |->
          Bind(<<((k - 1) \div 3) - 1, ((k - 1) % 3) - 1>>, LAMBDA d :
              <<PixelAt(lo[1] + d[1], lo[2] + d[2], npix),
                RMul(ProfileWeight(dense, d[1]),
                     ProfileWeight(dense, d[2]))>>)]))

\* np.digitize(x, bins) for monotonic bins; nan sorts after everything
Digitize(x, bins) ==
    IF x = NaN THEN Len(bins)
    ELSE IF \A k \in 1..(Len(bins) - 1) : ~RLt(bins[k + 1], bins[k])
    THEN Cardinality({k \in 1..Len(bins) : ~RLt(x, bins[k])})
    ELSE Cardinality({k \in 1..Len(bins) : RLt(x, bins[k])})

\* np.searchsorted(a, x): the number of entries of a below x
SearchSorted(a, x) ==
    IF x = NaN THEN Len(a)
    ELSE Cardinality({k \in 1..Len(a) : RLt(a[k], x)})

\* pmesh._radial_weights: the shell nearest to the new radial position and
\* its two neighbours (0-based indices), with the weights of a truncated
\* Gaussian profile; shells outside the grid are flagged with weight -1 and
\* the others are normalised to one
radial_weights(chi_ind, new_chi, dense, chi) ==
    Bind(Len(chi), LAMBDA n :
    Bind(IF chi_ind = 0 THEN 0
         ELSE IF chi_ind >= n THEN n - 1
         ELSE IF RLt(RSub(new_chi, chi[chi_ind]),
                     RSub(chi[chi_ind + 1], new_chi))
              THEN chi_ind - 1 ELSE chi_ind, LAMBDA c :
    Bind(Vec([k \in 1..3 |-> 0 <= c + k - 2 /\ c + k - 2 < n]),
         LAMBDA inside :
    Bind(RSum([k \in 1..3 |->
                 IF inside[k] THEN ProfileWeight(dense, k - 2) ELSE R(0)]),
         LAMBDA total :
        Vec([k \in 1..3 |->
          IF inside[k]
          THEN <<c + k - 2, RDiv(ProfileWeight(dense, k - 2), total)>>
          ELSE <<c + k - 2, R(-1)>>])))))

\* pmesh._bin_delta: every particle (ii, p) adds its mass, split by its
\* pixel and radial weights, into out; flagged radial entries are skipped.
\* parts[ii][p] = <<density, pixel entries, radial entries>>, with 0-based
\* radial indices.
bin_delta(parts, nchi, npix) ==
    \* the share of particle (ii, p) that goes to pixel q
    Bind(Mat([ii \in 1..nchi |-> [p \in 1..npix |->
           Vec([q \in 1..npix |->
             RSum([a \in 1..Len(parts[ii][p][2]) |->
                     IF parts[ii][p][2][a][1] = q
                     THEN parts[ii][p][2][a][2] ELSE R(0)])])]]),
         LAMBDA wp :
    \* the share of particle (ii, p) that goes to shell r
    Bind(Mat([ii \in 1..nchi |-> [p \in 1..npix |->
           Vec([r \in 1..nchi |->
             RSum([b \in 1..Len(parts[ii][p][3]) |->
                     IF parts[ii][p][3][b][1] = r - 1
                        /\ ~RLt(parts[ii][p][3][b][2], R(0))
                     THEN parts[ii][p][3][b][2] ELSE R(0)])])]]),
         LAMBDA wr :
        Mat([r \in 1..nchi |->
          [q \in 1..npix |->
            RSum([ii \in 1..nchi |->
              RSum([p \in 1..npix |->
                IF wp[ii][p][q] = R(0) \/ wr[ii][p][r] = R(0) THEN R(0)
                ELSE RMul(parts[ii][p][1],
                          RMul(wp[ii][p][q], wr[ii][p][r]))])])]])))

\* ------------------------------------------------------------------------
\* za_density_grid, za_density_sph and ZeldovichDynamics
\* ------------------------------------------------------------------------
\* the shape of a two- and of a three-dimensional array
Shape2(m) == IF Len(m) = 0 THEN <<0, 0>> ELSE <<Len(m), Len(m[1])>>
Shape3(t) == IF Len(t) = 0 THEN <<0, 0, 0>> ELSE <<Len(t)>> \o Shape2(t[1])

\* the checks with the name of the preceding check left on the third
AssertShapes_misnamed(psi, delta_bias, delta_m, chi, out) ==
    Bind(Shape2(delta_bias), LAMBDA shape :
        IF Shape3(psi) # <<3>> \o shape THEN "psi"
        ELSE IF Shape2(delta_m) # shape THEN "delta_m"
        ELSE IF Len(chi) # shape[1] THEN "delta_m"
        ELSE IF Shape2(out) # shape THEN "out"
        ELSE "")

\* the four _assert_shape calls of za_density_grid and za_density_sph: the
\* name of the first array with a wrong shape, "" when all are right
AssertShapes(psi, delta_bias, delta_m, chi, out) ==
    Bind(Shape2(delta_bias), LAMBDA shape :
        IF Shape3(psi) # <<3>> \o shape THEN "psi"
        ELSE IF Shape2(delta_m) # shape THEN "delta_m"
        ELSE IF Len(chi) # shape[1] THEN "chi"
        ELSE IF Shape2(out) # shape THEN "out"
        ELSE "")

\* "chi_ext": the radial coordinates with one more cell at each end
ChiExt(chi) ==
    <<RSub(chi[1], RSub(chi[2], chi[1]))>> \o chi
        \o <<RAdd(chi[Len(chi)], RSub(chi[Len(chi)], chi[Len(chi) - 1]))>>

\* a radial assignment that flags the indices below the grid only
GridRadial_flags_below(new_chi, chi) ==
    Bind(Len(chi), LAMBDA nchi :
    Bind(ChiExt(chi), LAMBDA chi_ext :
    Bind(Digitize(new_chi, chi_ext), LAMBDA chi_ext_ind :
    Bind(chi_ext[((chi_ext_ind - 1) % (nchi + 2)) + 1], LAMBDA chi0 :
    Bind(chi_ext[(chi_ext_ind % (nchi + 2)) + 1], LAMBDA chi1 :
    Bind(RSub(chi1, chi0), LAMBDA dchi :
    Bind(<<RAbs(RDiv(RSub(chi1, new_chi), dchi)),
           RAbs(RDiv(RSub(new_chi, chi0), dchi))>>, LAMBDA w :
    Bind(<<chi_ext_ind - 2, chi_ext_ind - 1>>, LAMBDA ind :
        [raw |-> w,
         ind |-> ind,
         flagged |-> Vec([k \in 1..2 |->
                        <<ind[k], IF ind[k] < 0 THEN R(-1) ELSE w[k]>>])]))))))))

\* a radial assignment that moves the share of a shell outside the grid to
\* the nearest shell of the grid
GridRadial_clamped(new_chi, chi) ==
    Bind(Len(chi), LAMBDA nchi :
    Bind(ChiExt(chi), LAMBDA chi_ext :
    Bind(Digitize(new_chi, chi_ext), LAMBDA chi_ext_ind :
    Bind(chi_ext[((chi_ext_ind - 1) % (nchi + 2)) + 1], LAMBDA chi0 :
    Bind(chi_ext[(chi_ext_ind % (nchi + 2)) + 1], LAMBDA chi1 :
    Bind(RSub(chi1, chi0), LAMBDA dchi :
    Bind(<<RAbs(RDiv(RSub(chi1, new_chi), dchi)),
           RAbs(RDiv(RSub(new_chi, chi0), dchi))>>, LAMBDA w :
    Bind(<<chi_ext_ind - 2, chi_ext_ind - 1>>, LAMBDA ind :
        [raw |-> w,
         ind |-> ind,
         flagged |-> Vec([k \in 1..2 |->
                        <<IF ind[k] < 0 THEN 0
                          ELSE IF ind[k] >= nchi THEN nchi - 1 ELSE ind[k],
                          w[k]>>])]))))))))

\* the radial indices (0-based) and weights of za_density_grid for a
\* particle displaced to new_chi, before and after flagging
GridRadial(new_chi, chi) ==
    Bind(Len(chi), LAMBDA nchi :
    Bind(ChiExt(chi), LAMBDA chi_ext :
    Bind(Digitize(new_chi, chi_ext), LAMBDA chi_ext_ind :
    Bind(chi_ext[((chi_ext_ind - 1) % (nchi + 2)) + 1], LAMBDA chi0 :
    Bind(chi_ext[(chi_ext_ind % (nchi + 2)) + 1], LAMBDA chi1 :
    Bind(RSub(chi1, chi0), LAMBDA dchi :
    Bind(<<RAbs(RDiv(RSub(chi1, new_chi), dchi)),
           RAbs(RDiv(RSub(new_chi, chi0), dchi))>>, LAMBDA w :
    Bind(<<chi_ext_ind - 2, chi_ext_ind - 1>>, LAMBDA ind :
        [raw |-> w,
         ind |-> ind,
         flagged |-> Vec([k \in 1..2 |->
                        <<ind[k], IF ind[k] < 0 \/ ind[k] >= nchi
                                  THEN R(-1) ELSE w[k]>>])]))))))))

\* every angular displacement is a finite number
AngFinite(psi) ==
    \A c \in 2..3 : \A i \in 1..Len(psi[c]) : \A p \in 1..Len(psi[c][i]) :
        IsFinite(psi[c][i][p])

\* subtract one from every entry: "out[:] -= 1.0"
MinusOne(m) ==
    Mat([i \in 1..Len(m) |-> [p \in 1..Len(m[i]) |-> RSub(m[i][p], R(1))]])

\* healpy.npix2nside raises unless npix is the pixel count of a resolution
isnpixok(npix) == npix > 0 /\ Npix(ISqrt(npix \div 12)) = npix

\* za_density_grid(psi, delta_bias, delta_m, chi, out): the shapes are
\* validated first; a failure leaves out as it was (field name: the array
\* the error names, "" for an error that names none)
za_density_grid(psi, delta_bias, delta_m, chi, out) ==
    Bind(AssertShapes(psi, delta_bias, delta_m, chi, out), LAMBDA bad :
    IF bad # "" THEN [ok |-> FALSE, name |-> bad, val |-> out]
    ELSE
    Bind(Len(delta_bias), LAMBDA nchi :
    Bind(Len(delta_bias[1]), LAMBDA npix :
    IF ~isnpixok(npix) \/ nchi < 2 \/ ~AngFinite(psi)
    THEN [ok |-> FALSE, name |-> "", val |-> out]
    ELSE
    Bind(Mat([ii \in 1..nchi |-> [p \in 1..npix |->
            <<RAdd(R(1), delta_bias[ii][p]),
              get_interp_weights(
                  NewAngPos(p, psi[2][ii][p], psi[3][ii][p], npix), npix),
              GridRadial(RAdd(chi[ii], psi[1][ii][p]), chi).flagged>>]]),
         LAMBDA parts :
        [ok |-> TRUE, name |-> "",
         val |-> MinusOne(MatAdd(out, bin_delta(parts, nchi, npix)))]))))

\* za_density_sph(psi, delta_bias, delta_m, chi, out): the resolution is
\* looked up from the width of delta_bias, then the shapes are validated
za_density_sph(psi, delta_bias, delta_m, chi, out) ==
    IF ~isnpixok(Shape2(delta_bias)[2])
    THEN [ok |-> FALSE, name |-> "", val |-> out]
    ELSE
    Bind(AssertShapes(psi, delta_bias, delta_m, chi, out), LAMBDA bad :
    IF bad # "" THEN [ok |-> FALSE, name |-> bad, val |-> out]
    ELSE IF ~AngFinite(psi)
    THEN [ok |-> FALSE, name |-> "", val |-> out]
    ELSE
    Bind(Len(delta_bias), LAMBDA nchi :
    Bind(Len(delta_bias[1]), LAMBDA npix :
    Bind(Mat([ii \in 1..nchi |-> [p \in 1..npix |->
            Bind(RLt(R(0), delta_m[ii][p]), LAMBDA dense :
            Bind(RAdd(chi[ii], psi[1][ii][p]), LAMBDA new_chi :
                <<RAdd(R(1), delta_bias[ii][p]),
                  pixel_weights(
                      NewAngPos(p, psi[2][ii][p], psi[3][ii][p], npix),
                      dense, npix),
                  radial_weights(SearchSorted(chi, new_chi), new_chi,
                                 dense, chi)>>))]]), LAMBDA parts :
        [ok |-> TRUE, name |-> "",
         val |-> MinusOne(MatAdd(out, bin_delta(parts, nchi, npix)))]))))

\* "vpsi": the gradient of the potential scaled by the growth factor, its
\* radial part by 1 + f in redshift space, its angular parts by 1 / chi and
\* 1 / (chi sin(theta))
ZaDisplacement(cfg, chi, npix, g, D, fr) ==
    << Mat([i \in 1..Len(chi) |-> [p \in 1..npix |->
          RMul(RMul(g.val[1][i][p], D[i]),
               IF cfg.redshift_space THEN RAdd(R(1), fr[i])
               ELSE R(1))]]),
       Mat([i \in 1..Len(chi) |-> [p \in 1..npix |->
          RDiv(RMul(g.val[2][i][p], D[i]), chi[i])]]),
       Mat([i \in 1..Len(chi) |-> [p \in 1..npix |->
          RDiv(RDiv(RMul(g.val[3][i][p], D[i]), chi[i]),
               SinTheta(p, npix))]]) >>

\* "delta_m": the initial density field scaled to the redshift of each
\* slice
ZaMatter(initial_field, npix, D) ==
    Mat([i \in 1..Len(initial_field.delta) |-> [p \in 1..npix |->
           RMul(initial_field.delta[i][p], D[i])]])

\* the end of process: z is what the density function left in
\* final_field.delta
ZaFinal(h, final_field, z) ==
    IF ~z.ok
    THEN [err |-> "ValueError", out |-> 0, heap |-> h, created |-> TRUE]
    ELSE
    Bind(Allocate(h, [final_field EXCEPT !.delta = z.val]), LAMBDA a :
        [err |-> "", out |-> a.out, heap |-> a.heap, created |-> TRUE])

\* process from the displacement on: the new container and the density
\* computed into it
ZaDensity(cfg, h, biased_field, vpsi, delta_m, final_field) ==
    ZaFinal(h, final_field,
            IF cfg.sph
            THEN za_density_sph(vpsi, biased_field.delta, delta_m,
                                biased_field.chi, final_field.delta)
            ELSE za_density_grid(vpsi, biased_field.delta, delta_m,
                                 biased_field.chi, final_field.delta))

\* process from the gradient g of the potential on
ZaDisplace(cfg, h, initial_field, biased_field, za, npix, g) ==
    IF ~g.ok
    THEN [err |-> "ValueError", out |-> 0, heap |-> h, created |-> FALSE]
    ELSE
    Bind(GrowthD(za), LAMBDA D :
        ZaDensity(cfg, h, biased_field,
                  ZaDisplacement(cfg, biased_field.chi, npix, g, D,
                      Vec([i \in 1..Len(za) |-> growth_rate(za[i])])),
                  ZaMatter(initial_field, npix, D),
                  BiasedLSS(biased_field.lightcone,
                            biased_field.fixed_redshift, biased_field)))

\* ZeldovichDynamics.process with configuration cfg on the objects ini and
\* bia of the heap h
ZeldovichDynamics_process(cfg, ini, bia, h) ==
    Bind(get_props(h[bia]), LAMBDA props :
    IF ~validate_fields(h[ini], h[bia])
    THEN [err |-> "ValueError", out |-> 0, heap |-> h, created |-> FALSE]
    ELSE IF ~props.ok
    THEN [err |-> "TypeError", out |-> 0, heap |-> h, created |-> FALSE]
    ELSE ZaDisplace(cfg, h, h[ini], h[bia], props.za,
                    Len(h[bia].delta[1]),
                    gradient(h[ini].phi, h[bia].chi)))

\* ------------------------------------------------------------------------
\* AddCorrelatedShotNoise
\* ------------------------------------------------------------------------
\* the exponent e with 2^e <= n / d < 2^(e + 1), for n, d > 0
RECURSIVE Log2Floor(_, _)
Log2Floor(n, d) ==
    IF n >= 2 * d THEN Log2Floor(n, 2 * d) + 1
    ELSE IF n < d THEN Log2Floor(2 * n, d) - 1
    ELSE 0

\* the k leading base-"base" digits of the fraction n / d < 1
RECURSIVE Digits(_, _, _, _)
Digits(n, d, base, k) ==
    IF k = 0 THEN <<>>
    ELSE <<(n * base) \div d>> \o Digits((n * base) % d, d, base, k - 1)

RECURSIVE Reverse(_)
Reverse(q) == IF q = <<>> THEN <<>> ELSE Reverse(Tail(q)) \o <<Head(q)>>

\* what is left of the fraction n / d after its k leading digits
RECURSIVE DigitsRem(_, _, _, _)
DigitsRem(n, d, base, k) ==
    IF k = 0 THEN n ELSE DigitsRem((n * base) % d, d, base, k - 1)

\* one added to a little-endian byte string, carrying upwards
RECURSIVE Incr(_)
Incr(bytes) ==
    IF bytes = <<>> THEN <<>>
    ELSE IF Head(bytes) = 255 THEN <<0>> \o Incr(Tail(bytes))
    ELSE <<Head(bytes) + 1>> \o Tail(bytes)

\* the eight bytes of the float64 nearest to v, least significant first
\* (the byte order of ndarray.tobytes on the usual hardware): sign, eleven
\* bits of biased exponent and 52 bits of fraction, rounded to nearest,
\* ties to even
F64Bytes(v) ==
    IF v = R(0) THEN <<0, 0, 0, 0, 0, 0, 0, 0>>
    ELSE IF v = NaN THEN <<0, 0, 0, 0, 0, 0, 248, 127>>
    ELSE IF v[2] = 0
    THEN <<0, 0, 0, 0, 0, 0, 240, IF v[1] > 0 THEN 127 ELSE 255>>
    ELSE
    Bind(Log2Floor(Abs(v[1]), v[2]), LAMBDA e :
    \* |v| = (1 + fn / fd) * 2^e
    Bind(IF e >= 0 THEN v[2] * (2 ^ e) ELSE v[2], LAMBDA fd :
    Bind((IF e >= 0 THEN Abs(v[1]) ELSE Abs(v[1]) * (2 ^ (-e))) - fd,
         LAMBDA fn :
    Bind(DigitsRem((fn * 16) % fd, fd, 256, 6), LAMBDA rem :
    Bind(Reverse(<<(1023 + e) \div 16,
                   ((1023 + e) % 16) * 16 + (fn * 16) \div fd>>
                 \o Digits((fn * 16) % fd, fd, 256, 6)), LAMBDA low :
    Bind(IF 2 * rem > fd \/ (2 * rem = fd /\ low[1] % 2 = 1)
         THEN Incr(low) ELSE low, LAMBDA mag :
        [mag EXCEPT ![8] = @ + (IF v[1] < 0 THEN 128 ELSE 0)]))))))

\* "lss.delta[:, :100].copy().tobytes()": the first hundred pixels of every
\* shell, shell after shell
RECURSIVE BytesRange(_, _, _)
BytesRange(vals, lo, hi) ==
    IF lo > hi THEN <<>>
    ELSE IF lo = hi THEN F64Bytes(vals[lo])
    ELSE BytesRange(vals, lo, (lo + hi) \div 2)
         \o BytesRange(vals, (lo + hi) \div 2 + 1, hi)
BytesOf(vals) == Bind(Vec(vals), LAMBDA v : BytesRange(v, 1, Len(v)))

\* a subset that is the whole of the delta data
DeltaSubset_all(delta) == Flatten(delta)

DeltaSubset(delta) ==
    Flatten([i \in 1..Len(delta) |->
               SubSeq(delta[i], 1,
                      IF Len(delta[i]) < 100 THEN Len(delta[i]) ELSE 100)])

\* the largest prime below 2^16, the modulus of the Adler checksum
AdlerBase == 65521

\* the two running sums of the Adler checksum over the bytes lo..hi, each
\* modulo AdlerBase: the sum of the bytes, and the sum of the partial sums
RECURSIVE Adler(_, _, _)
Adler(bytes, lo, hi) ==
    IF lo > hi THEN <<0, 0>>
    ELSE IF lo = hi THEN <<bytes[lo], bytes[lo]>>
    ELSE Bind((lo + hi) \div 2, LAMBDA mid :
         Bind(Adler(bytes, lo, mid), LAMBDA l :
         Bind(Adler(bytes, mid + 1, hi), LAMBDA r :
             <<(l[1] + r[1]) % AdlerBase,
               (l[2] + (((hi - mid) * l[1]) % AdlerBase) + r[2])
                   % AdlerBase>>)))

\* zlib.adler32 of a byte string, as the pair <<high half, low half>> of
\* the 32-bit checksum: a starts at 1 and adds every byte, b adds every
\* value a takes
adler32(bytes) ==
    Bind(Vec(bytes), LAMBDA v :
    Bind(Adler(v, 1, Len(v)), LAMBDA t :
        <<(t[2] + Len(v)) % AdlerBase, (t[1] + 1) % AdlerBase>>))

\* a configured integer seed as a pair of 16-bit halves
Seed32(x) == <<x \div 65536, x % 65536>>

\* a hash that also covers the radial axis of the field
HashField_with_chi(lss) ==
    adler32(BytesOf(DeltaSubset(lss.delta)) \o BytesOf(lss.chi))

\* "lss_subset = lss.delta[:, :100].copy().tobytes()" and
\* "zlib.adler32(lss_subset)"
HashField(lss) == adler32(BytesOf(DeltaSubset(lss.delta)))

\* lssmodels.omega_HI.evaluate(z)
omega_HI(z) == RDiv(RAdd(R(1), z), R(4))

\* AddCorrelatedShotNoise.setup(lss) for a task configured with cfg
AddCorrelatedShotNoise_setup(cfg, id, lss) ==
    Bind([state |-> "ready", cfg |-> cfg,
          seed |-> Some(IF IsNone(cfg.seed) THEN HashField(lss)
                        ELSE Seed32(Get(cfg.seed))),
          lss |-> id, n_eff_z |-> <<>>, draws |-> 0], LAMBDA t :
        IF ~IsNone(cfg.n_eff)
        THEN [t EXCEPT !.n_eff_z =
                 [i \in 1..Len(lss.chi) |-> Get(cfg.n_eff)]]
        ELSE IF ~IsNone(cfg.log_M_HI_g)
        THEN [t EXCEPT !.n_eff_z =
                 Vec([i \in 1..Len(lss.redshift) |->
                    RDiv(omega_HI(lss.redshift[i]),
                         RPow(R(10), Get(cfg.log_M_HI_g)))])]
        ELSE [t EXCEPT !.state = "setup_failed"])

\* the noise written into a copy that is appended to the heap
AddInPlace_copy(h, id, noise) ==
    Append(h, [h[id] EXCEPT !.delta = MatAdd(@, noise)])

\* "input_field.delta[:] += shot_noise"
AddInPlace(h, id, noise) == [h EXCEPT ![id].delta = MatAdd(@, noise)]

\* the position of a seed in the family of generators
SeedKey(seed) == (seed[1] * 7 + seed[2]) % 1009

\* AddCorrelatedShotNoise.process(input_field) of the task t on the object
\* id of the heap h
AddCorrelatedShotNoise_process(t, id, h) ==
    Bind(h[id], LAMBDA input_field :
    Bind(Len(input_field.chi), LAMBDA nchi :
    Bind(Len(input_field.delta[1]), LAMBDA npix :
    Bind(RDiv(RMul(R(4), Pi), R(Npix(input_field.nside))), LAMBDA pixarea :
    Bind(Len(t.n_eff_z), LAMBDA nn :
    IF nchi < 2
    THEN [err |-> "IndexError", out |-> 0, heap |-> h, task |-> t,
          noise |-> <<>>]
    ELSE IF nn # nchi /\ nn # 1
    THEN [err |-> "ValueError", out |-> 0, heap |-> h, task |-> t,
          noise |-> <<>>]
    ELSE
    Bind(calculate_width(input_field.chi), LAMBDA width :
    Bind(Vec([i \in 1..nchi |->
            RMul(RMul(pixarea, RPow(input_field.chi[i], 2)), width[i])]),
         LAMBDA volume :
    Bind(Vec([i \in 1..nchi |->
            RInvSqrt(RMul(volume[i],
                          t.n_eff_z[IF nn = 1 THEN 1 ELSE i]))]),
         LAMBDA std :
    Bind(Mat([i \in 1..nchi |-> [p \in 1..npix |->
            RMul(std[i],
                 R(Deviate(SeedKey(Get(t.seed)),
                           t.draws + (i - 1) * npix + p)))]]),
         LAMBDA shot_noise :
        [err |-> "", out |-> id,
         heap |-> AddInPlace(h, id, shot_noise),
         task |-> [t EXCEPT !.draws = @ + nchi * npix],
         noise |-> shot_noise])))))))))

\* ------------------------------------------------------------------------
\* The field-evolving stages as pipeline steps
\* ------------------------------------------------------------------------
\* an initial field as GenerateInitialLSS returns it for the redshifts z and
\* the seed
RealizedField(z, seed) ==
    GenerateField([nside |-> 1, redshift |-> Some(z), frequencies |-> None,
                   num_sims |-> 1, start_seed |-> seed, xromb |-> 0,
                   leg_q |-> 25, comm_size |-> 1], Some(seed)).field

ConstantBias(b) == Some([kind |-> "constant", bias_L |-> b])
PolynomialBias(z_eff, coeff, alpha_b) ==
    Some([kind |-> "polynomial", z_eff |-> z_eff, coeff |-> coeff,
          alpha_b |-> alpha_b])

\* the configurations of the biasing stage that are explored:
\* GenerateConstantBias, GeneratePolynomialBias, a subclass with both
\* orders, one with the second order only, one with neither, lognormal
\* fields, a fixed redshift, and a stage off the lightcone without redshift
BiasConfigs ==
    {[lightcone |-> TRUE, redshift |-> None, lognormal |-> FALSE,
      b1 |-> ConstantBias(R(2)), b2 |-> None],
     [lightcone |-> TRUE, redshift |-> None, lognormal |-> FALSE,
      b1 |-> PolynomialBias(R(1), <<R(1), R(1)>>, R(2)), b2 |-> None],
     [lightcone |-> TRUE, redshift |-> None, lognormal |-> FALSE,
      b1 |-> ConstantBias(R(1)), b2 |-> ConstantBias(R(3))],
     [lightcone |-> TRUE, redshift |-> None, lognormal |-> FALSE,
      b1 |-> None, b2 |-> ConstantBias(R(1))],
     [lightcone |-> TRUE, redshift |-> None, lognormal |-> FALSE,
      b1 |-> None, b2 |-> None],
     [lightcone |-> TRUE, redshift |-> None, lognormal |-> TRUE,
      b1 |-> ConstantBias(R(1)), b2 |-> None],
     [lightcone |-> FALSE, redshift |-> Some(R(1)), lognormal |-> TRUE,
      b1 |-> ConstantBias(R(1)), b2 |-> None],
     [lightcone |-> FALSE, redshift |-> Some(R(2)), lognormal |-> FALSE,
      b1 |-> ConstantBias(R(1)), b2 |-> ConstantBias(R(1))],
     [lightcone |-> FALSE, redshift |-> None, lognormal |-> FALSE,
      b1 |-> ConstantBias(R(1)), b2 |-> None]}

\* the field a GenerateConstantBias stage with bias_L = 2 on the lightcone
\* returns for the initial field f
BiasedField(f) ==
    GenerateBiasedFieldBase_process(
        [lightcone |-> TRUE, redshift |-> None, lognormal |-> FALSE,
         b1 |-> ConstantBias(R(2)), b2 |-> None], f).field

\* the objects a pipeline holds once its initial fields, one for each of
\* the redshift arrays zs, are generated from the seed and the last of
\* them is biased
PipelineHeap(zs, seed) ==
    Bind(Vec([k \in 1..Len(zs) |-> RealizedField(zs[k], seed)]),
         LAMBDA fs :
         fs \o <<BiasedField(fs[Len(fs)])>>)

\* the pipelines that are explored: one volume, two volumes with different
\* shells, and a single shell next to two shells at the same distance
StageHeaps ==
    {PipelineHeap(c[1], c[2]) : c \in
        {<< <<<<R(1), R(2), R(3)>>>>, 1 >>,
         << <<<<R(1), R(2), R(3)>>, <<R(1), R(2), <<5, 2>>>>>>, 0 >>,
         << <<<<R(1)>>, <<R(1), R(1)>>>>, 0 >>}}

LinearConfigs == [redshift_space : BOOLEAN]
ZeldovichConfigs == [sph : BOOLEAN, redshift_space : BOOLEAN]
FoGConfigs ==
    [alpha_FoG : {R(0), R(1)}, z_eff : {R(1)}, FoG_coeff : {<<R(2), R(1)>>}]

\* the configurations of the biasing stage in a pipeline that goes on to
\* the dynamics: a constant bias on the lightcone and a lognormal field at
\* a fixed redshift
PipelineBiasConfigs ==
    {[lightcone |-> TRUE, redshift |-> None, lognormal |-> FALSE,
      b1 |-> ConstantBias(R(2)), b2 |-> None],
     [lightcone |-> FALSE, redshift |-> Some(R(1)), lognormal |-> TRUE,
      b1 |-> ConstantBias(R(1)), b2 |-> None]}

StageInit ==
    /\ gi = [state |-> "new", cfg |-> <<>>, num_sims |-> 0, seed |-> None]
    /\ calls = <<>>
    /\ heap \in StageHeaps
    /\ last = NoCall
    /\ sn = <<>>
    /\ nnoise = 0
    /\ made = [k \in 1..Len(heap) |->
                 IF heap[k].kind = "InitialLSS" THEN "GenerateInitialLSS"
                 ELSE "GenerateBiasedFieldBase"]
    /\ lib = NoLibCall

\* a pipeline runs its next stage while objects may still be allocated and
\* no stage has raised (an exception ends the run)
Running == Len(heap) < MaxObj /\ last.err = ""

\* the creators of the objects after a call of the stage op that returned
\* out: one more entry when out is a new object
Made(out, op) == IF out > Len(made) THEN Append(made, op) ELSE made

\* a biasing stage with configuration cfg receives the initial field id
BiasStage(cfg, id) ==
    /\ Running
    /\ made[id] = "GenerateInitialLSS"
    /\ \E r \in {GenerateBiasedFieldBase_process(cfg, heap[id])} :
       \E a \in {IF r.ok THEN Allocate(heap, r.field)
                 ELSE [out |-> 0, heap |-> heap]} :
           /\ heap' = a.heap
           /\ made' = Made(a.out, "GenerateBiasedFieldBase")
           /\ last' = [op |-> "GenerateBiasedFieldBase", cfg |-> cfg,
                       ins |-> <<id>>, out |-> a.out,
                       err |-> r.err, evals |-> {}, pre |-> heap,
                       created |-> TRUE, noise |-> <<>>]
    /\ UNCHANGED <<gi, calls, sn, nnoise, lib>>

\* a LinearDynamics stage receives the initial field ini and the output
\* bia of a biasing stage
LinearStage(cfg, ini, bia) ==
    /\ Running
    /\ made[ini] = "GenerateInitialLSS"
    /\ made[bia] = "GenerateBiasedFieldBase"
    /\ \E r \in {LinearDynamics_process(cfg, ini, bia, heap)} :
           /\ heap' = r.heap
           /\ made' = Made(r.out, "LinearDynamics")
           /\ last' = [op |-> "LinearDynamics", cfg |-> cfg,
                       ins |-> <<ini, bia>>, out |-> r.out, err |-> r.err,
                       evals |-> {}, pre |-> heap, created |-> r.created,
                       noise |-> <<>>]
    /\ UNCHANGED <<gi, calls, sn, nnoise, lib>>

\* a ZeldovichDynamics stage receives the initial field ini and the output
\* bia of a biasing stage
ZeldovichStage(cfg, ini, bia) ==
    /\ Running
    /\ made[ini] = "GenerateInitialLSS"
    /\ made[bia] = "GenerateBiasedFieldBase"
    /\ \E r \in {ZeldovichDynamics_process(cfg, ini, bia, heap)} :
           /\ heap' = r.heap
           /\ made' = Made(r.out, "ZeldovichDynamics")
           /\ last' = [op |-> "ZeldovichDynamics", cfg |-> cfg,
                       ins |-> <<ini, bia>>, out |-> r.out, err |-> r.err,
                       evals |-> {}, pre |-> heap, created |-> r.created,
                       noise |-> <<>>]
    /\ UNCHANGED <<gi, calls, sn, nnoise, lib>>

\* a FingersOfGod stage receives the output id of a biasing stage or of a
\* dynamics stage
FoGStage(cfg, id) ==
    /\ Running
    /\ made[id] \in {"GenerateBiasedFieldBase", "LinearDynamics",
                     "ZeldovichDynamics"}
    /\ \E r \in {FingersOfGod_process(cfg, id, heap)} :
           /\ heap' = r.heap
           /\ made' = Made(r.out, "FingersOfGod")
           /\ last' = [op |-> "FingersOfGod", cfg |-> cfg, ins |-> <<id>>,
                       out |-> r.out, err |-> r.err, evals |-> r.evals,
                       pre |-> heap, created |-> r.out # id /\ r.out # 0,
                       noise |-> <<>>]
    /\ UNCHANGED <<gi, calls, sn, nnoise, lib>>

StageNext ==
    \/ \E cfg \in PipelineBiasConfigs : \E id \in 1..Len(heap) :
           BiasStage(cfg, id)
    \/ \E cfg \in LinearConfigs : \E ini, bia \in 1..Len(heap) :
           LinearStage(cfg, ini, bia)
    \/ \E cfg \in ZeldovichConfigs : \E ini, bia \in 1..Len(heap) :
           ZeldovichStage(cfg, ini, bia)
    \/ \E cfg \in FoGConfigs : \E id \in 1..Len(heap) : FoGStage(cfg, id)

\* the pipelines of the field-evolving stages
StageSpec == StageInit /\ [][StageNext]_vars

BiasNext ==
    \E cfg \in BiasConfigs : \E id \in 1..Len(heap) : BiasStage(cfg, id)

\* the biasing stage alone, in every configuration
BiasSpec == StageInit /\ [][BiasNext]_vars

\* ------------------------------------------------------------------------
\* The shot-noise stage as pipeline steps
\* ------------------------------------------------------------------------
\* a task that is constructed and not yet set up
NewTask == [state |-> "new", cfg |-> <<>>, seed |-> None, lss |-> 0,
            n_eff_z |-> <<>>, draws |-> 0]

\* the configurations of the task that are explored: a number density, a
\* mass per tracer, an explicit seed, and neither density nor mass
NoiseConfigs ==
    {[seed |-> None, n_eff |-> Some(R(1)), log_M_HI_g |-> None],
     [seed |-> None, n_eff |-> None, log_M_HI_g |-> Some(1)],
     [seed |-> Some(7), n_eff |-> Some(R(1)), log_M_HI_g |-> None],
     [seed |-> None, n_eff |-> None, log_M_HI_g |-> None]}

\* two consumers of the initial fields, next to the objects of a pipeline
NoiseInit ==
    /\ gi = [state |-> "new", cfg |-> <<>>, num_sims |-> 0, seed |-> None]
    /\ calls = <<>>
    /\ heap \in StageHeaps
    /\ last = NoCall
    /\ sn = <<NewTask, NewTask>>
    /\ nnoise = 0
    /\ made = [k \in 1..Len(heap) |->
                 IF heap[k].kind = "InitialLSS" THEN "GenerateInitialLSS"
                 ELSE "GenerateBiasedFieldBase"]
    /\ lib = NoLibCall

\* the pipeline sets up task k, configured with cfg, with the initial
\* field id
SNSetup(k, cfg, id) ==
    /\ sn[k].state = "new"
    /\ made[id] = "GenerateInitialLSS"
    /\ sn' = [sn EXCEPT ![k] = AddCorrelatedShotNoise_setup(cfg, id, heap[id])]
    /\ UNCHANGED <<gi, calls, heap, last, nnoise, made, lib>>

\* task k receives the field id
SNProcess(k, id) ==
    /\ sn[k].state = "ready"
    /\ nnoise < MaxNoise
    /\ last.err = ""
    /\ heap[id].kind = "BiasedLSS"
    /\ \E r \in {AddCorrelatedShotNoise_process(sn[k], id, heap)} :
           /\ heap' = r.heap
           /\ sn' = [sn EXCEPT ![k] = r.task]
           /\ last' = [op |-> "AddCorrelatedShotNoise", cfg |-> sn[k].cfg,
                       ins |-> <<id>>, out |-> r.out, err |-> r.err,
                       evals |-> {}, pre |-> heap, created |-> FALSE,
                       noise |-> r.noise]
    /\ nnoise' = nnoise + 1
    /\ made' = [j \in 1..Len(heap') |->
                  IF j <= Len(made) THEN made[j]
                  ELSE "AddCorrelatedShotNoise"]
    /\ UNCHANGED <<gi, calls, lib>>

NoiseNext ==
    \/ \E k \in 1..Len(sn) : \E cfg \in NoiseConfigs :
         \E id \in 1..Len(heap) : SNSetup(k, cfg, id)
    \/ \E k \in 1..Len(sn) : \E id \in 1..Len(heap) : SNProcess(k, id)

\* the pipelines of the shot-noise stage
NoiseSpec == NoiseInit /\ [][NoiseNext]_vars

\* ------------------------------------------------------------------------
\* Properties of the field-evolving stages
\* ------------------------------------------------------------------------
EvolvingStages ==
    {"GenerateBiasedFieldBase", "ZeldovichDynamics", "LinearDynamics",
     "FingersOfGod"}

\* the last call was made by one of the field-evolving stages and returned
\* an object
StageReturned == last.op \in EvolvingStages /\ last.out # 0

\* the objects the last call received
LastInputs == {last.ins[k] : k \in 1..Len(last.ins)}

\* the last call left the delta and phi data of its inputs as they were
InputsUntouched ==
    \A id \in LastInputs :
        /\ heap[id].delta = last.pre[id].delta
        /\ heap[id].phi = last.pre[id].phi

\* C4 (as claimed): every field-evolving stage, in every configuration,
\* returns a BiasedLSS that is a different object from each of its inputs
\* and leaves the delta and phi data of its inputs unchanged
C4_EveryStageReturnsNewObject ==
    StageReturned =>
        /\ heap[last.out].kind = "BiasedLSS"
        /\ last.out \notin LastInputs
        /\ InputsUntouched

\* C4 (amended): every field-evolving stage returns a BiasedLSS and leaves
\* the delta and phi data of its inputs unchanged; the object returned is
\* one that did not exist before the call, except that FingersOfGod with
\* alpha_FoG = 0 returns its input object itself
C4_NewObjectUnlessFoGOff ==
    StageReturned =>
        /\ heap[last.out].kind = "BiasedLSS"
        /\ InputsUntouched
        /\ IF last.op = "FingersOfGod" /\ last.cfg.alpha_FoG = R(0)
           THEN last.out = last.ins[1]
           ELSE /\ last.out \notin LastInputs
                /\ last.out > Len(last.pre)
                /\ Len(heap) = Len(last.pre) + 1

C4_Witness ==
    /\ last.op = "ZeldovichDynamics"
    /\ last.out = Len(last.pre) + 1
    /\ heap[last.out].kind = "BiasedLSS"
    /\ heap[last.out].delta # heap[last.ins[2]].delta
    /\ \E k \in 1..Len(made) : made[k] = "FingersOfGod"

\* C5: FingersOfGod.process with alpha_FoG = 0 returns its input field,
\* changes no data, and evaluates neither the growth factor nor the sigma_P
\* model nor the smoothing kernel
C5_FoGOffIsIdentity ==
    (last.op = "FingersOfGod" /\ last.cfg.alpha_FoG = R(0)) =>
        /\ last.err = ""
        /\ last.out = last.ins[1]
        /\ heap = last.pre
        /\ last.evals = {}

C5_Witness ==
    /\ last.op = "FingersOfGod"
    /\ last.cfg.alpha_FoG = R(0)
    /\ last.out = last.ins[1]
    /\ Len(heap[last.out].chi) >= 3

\* C10 (as claimed): ZeldovichDynamics.process and LinearDynamics.process
\* raise and return no field, before the output container is created,
\* whenever the radial coordinates or the pixel axes of the initial and
\* the biased field are not identical
C10_DifferingAxesAreRejected ==
    (last.op \in {"ZeldovichDynamics", "LinearDynamics"}) =>
        LET initial_field == last.pre[last.ins[1]]
            biased_field == last.pre[last.ins[2]]
        IN  (initial_field.chi # biased_field.chi
             \/ initial_field.pixel # biased_field.pixel) =>
                /\ last.err # ""
                /\ last.out = 0
                /\ ~last.created

\* ------------------------------------------------------------------------
\* Properties of the biasing stage
\* ------------------------------------------------------------------------
\* the last call was a call of the biasing stage that returned a field
BiasReturned == last.op = "GenerateBiasedFieldBase" /\ last.out # 0

\* the redshift of shell i in the last call of the biasing stage
BiasRedshift(i) ==
    IF last.cfg.lightcone THEN last.pre[last.ins[1]].redshift[i]
    ELSE Get(last.cfg.redshift)

\* the growth factor of shell i normalised to one today
NormalisedGrowth(i) ==
    RDiv(growth_factor(BiasRedshift(i)), growth_factor(R(0)))

\* the mean over the pixels of shell i of the squared input delta
MeanSquare(i) ==
    LET d == last.pre[last.ins[1]].delta[i]
    IN  RDiv(RSum([q \in 1..Len(d) |-> RMul(d[q], d[q])]), R(Len(d)))

\* the term of the given order at shell i and pixel p, zero for an order
\* that the stage does not define
ExpectedTerm(order, i, p) ==
    LET d == last.pre[last.ins[1]].delta[i][p]
        D == NormalisedGrowth(i)
    IN  IF order = 1
        THEN IF IsNone(last.cfg.b1) THEN R(0)
             ELSE RMul(RMul(D, BiasValue(Get(last.cfg.b1), BiasRedshift(i))),
                       d)
        ELSE IF IsNone(last.cfg.b2) THEN R(0)
             ELSE RMul(RMul(RMul(D, D),
                            BiasValue(Get(last.cfg.b2), BiasRedshift(i))),
                       RSub(RMul(d, d), MeanSquare(i)))

\* C8: with both bias orders defined and lognormal off, the returned delta
\* is D b1 delta + D^2 b2 (delta^2 - pixel mean of delta^2) at every shell
\* and pixel, with D = growth_factor(z) / growth_factor(0)
C8_BiasFormula ==
    (BiasReturned /\ ~IsNone(last.cfg.b1) /\ ~IsNone(last.cfg.b2)
     /\ ~last.cfg.lognormal) =>
        LET out == heap[last.out].delta
        IN  \A i \in 1..Len(out) : \A p \in 1..Len(out[i]) :
                out[i][p] = RAdd(ExpectedTerm(1, i, p), ExpectedTerm(2, i, p))

C8_Witness ==
    /\ BiasReturned
    /\ ~IsNone(last.cfg.b1) /\ ~IsNone(last.cfg.b2)
    /\ ~last.cfg.lognormal
    /\ Len(heap[last.out].delta) >= 3
    /\ \E i \in 1..Len(heap[last.out].delta) :
         \E p \in 1..Len(heap[last.out].delta[i]) :
            /\ ExpectedTerm(1, i, p) # R(0)
            /\ ExpectedTerm(2, i, p) # R(0)
            /\ MeanSquare(i) # R(0)

\* C9: an order whose bias model is not implemented is skipped without an
\* error: the call returns a field, that order adds nothing to delta while
\* the other order is applied, and delta is zero everywhere when both
\* orders are absent
C9_AbsentOrderIsSkipped ==
    (last.op = "GenerateBiasedFieldBase"
     /\ (IsNone(last.cfg.b1) \/ IsNone(last.cfg.b2))
     /\ (last.cfg.lightcone \/ ~IsNone(last.cfg.redshift))) =>
        /\ last.err = ""
        /\ last.out # 0
        /\ LET out == heap[last.out].delta
           IN  /\ ~last.cfg.lognormal =>
                    \A i \in 1..Len(out) : \A p \in 1..Len(out[i]) :
                        out[i][p] = IF IsNone(last.cfg.b1)
                                    THEN ExpectedTerm(2, i, p)
                                    ELSE ExpectedTerm(1, i, p)
               /\ (IsNone(last.cfg.b1) /\ IsNone(last.cfg.b2)) =>
                    \A i \in 1..Len(out) : \A p \in 1..Len(out[i]) :
                        out[i][p] = R(0)

C9_Witness ==
    /\ BiasReturned
    /\ ~IsNone(last.cfg.b1) /\ IsNone(last.cfg.b2)
    /\ ~last.cfg.lognormal
    /\ \E k \in 1..Len(heap) :
         /\ made[k] = "GenerateBiasedFieldBase"
         /\ k # last.out
         /\ \A i \in 1..Len(heap[k].delta) :
              \A p \in 1..Len(heap[k].delta[i]) : heap[k].delta[i][p] = R(0)
    /\ \E i \in 1..Len(heap[last.out].delta) :
         \E p \in 1..Len(heap[last.out].delta[i]) :
            heap[last.out].delta[i][p] # R(0)

\* ------------------------------------------------------------------------
\* Properties of the shot-noise stage
\* ------------------------------------------------------------------------
\* the last call was a call of the shot-noise stage that returned
NoiseReturned == last.op = "AddCorrelatedShotNoise" /\ last.err = ""

\* C6: AddCorrelatedShotNoise.process adds the noise to the delta of its
\* input in place and returns that same object; no object is created, no
\* other object changes, and on the input nothing but delta changes
C6_ShotNoiseInPlace ==
    NoiseReturned =>
        LET id == last.ins[1]
        IN  /\ last.out = id
            /\ Len(heap) = Len(last.pre)
            /\ \A k \in 1..Len(heap) : k # id => heap[k] = last.pre[k]
            /\ heap[id].delta = MatAdd(last.pre[id].delta, last.noise)
            /\ heap[id] = [last.pre[id] EXCEPT !.delta = heap[id].delta]

C6_Witness ==
    /\ NoiseReturned
    /\ last.out = last.ins[1]
    /\ heap[last.out].delta # last.pre[last.out].delta
    /\ heap[last.out].chi = last.pre[last.out].chi
    /\ \E i \in 1..Len(last.noise) : \E p \in 1..Len(last.noise[i]) :
         IsFinite(last.noise[i][p]) /\ last.noise[i][p] # R(0)

\* task k went through setup without an explicitly configured seed
Hashed(k) == sn[k].state # "new" /\ IsNone(sn[k].cfg.seed)

\* C7: two tasks without a configured seed whose setup received the same
\* initial field end setup with the same seed, and so do two tasks whose
\* fields hold the same delta data: the seed depends on nothing else
C7_SameFieldSameSeed ==
    \A j, k \in 1..Len(sn) :
        (Hashed(j) /\ Hashed(k)
         /\ heap[sn[j].lss].delta = heap[sn[k].lss].delta) =>
            /\ sn[j].seed = sn[k].seed
            /\ sn[j].seed
                 = Some(adler32(BytesOf(DeltaSubset(heap[sn[k].lss].delta))))

C7_Witness ==
    /\ Hashed(1) /\ Hashed(2)
    /\ sn[1].state = "ready" /\ sn[2].state = "ready"
    /\ sn[1].cfg # sn[2].cfg
    /\ sn[1].lss # sn[2].lss
    /\ heap[sn[1].lss].chi # heap[sn[2].lss].chi
    /\ heap[sn[1].lss].delta = heap[sn[2].lss].delta
    /\ sn[1].seed = sn[2].seed

\* ------------------------------------------------------------------------
\* Direct calls of the functions of the library
\* ------------------------------------------------------------------------
\* an array of the given shape that holds v everywhere
Full1(n, v) == [i \in 1..n |-> v]
Full2(shape, v) == [i \in 1..shape[1] |-> Full1(shape[2], v)]
Full3(shape, v) == [c \in 1..shape[1] |-> Full2(<<shape[2], shape[3]>>, v)]

\* the number of shells of the arrays handed to the density functions
MaxShells == 2

\* the calls of za_density_grid and za_density_sph that are explored:
\* delta_bias is a map of MaxShells shells of the lowest resolution, and
\* each other array has its right shape or is one off along one axis
ZaCalls ==
    {[op |-> f,
      args |-> << Full3(s[1], R(0)), Full2(<<MaxShells, Npix(1)>>, R(0)),
                  Full2(s[2], R(0)), [i \in 1..s[3] |-> R(i)],
                  Full2(s[4], R(1)) >>] :
        f \in {"za_density_grid", "za_density_sph"},
        s \in {<<3, MaxShells, Npix(1)>>, <<2, MaxShells, Npix(1)>>,
               <<3, MaxShells + 1, Npix(1)>>, <<3, MaxShells, Npix(1) - 1>>}
              \X {<<MaxShells, Npix(1)>>, <<MaxShells + 1, Npix(1)>>,
                  <<MaxShells, Npix(1) - 1>>}
              \X {MaxShells, MaxShells + 1, MaxShells - 1}
              \X {<<MaxShells, Npix(1)>>, <<MaxShells - 1, Npix(1)>>,
                  <<MaxShells, Npix(1) + 1>>}}

\* the pending call of the function op returns ret
Returns(op, ret) ==
    /\ lib.op = op
    /\ ~lib.done
    /\ lib' = [lib EXCEPT !.done = TRUE, !.ret = ret]
    /\ UNCHANGED <<gi, calls, heap, last, sn, nnoise, made>>

CallZaDensityGrid ==
    /\ lib.op = "za_density_grid"
    /\ Returns("za_density_grid",
               za_density_grid(lib.args[1], lib.args[2], lib.args[3],
                               lib.args[4], lib.args[5]))

CallZaDensitySph ==
    /\ lib.op = "za_density_sph"
    /\ Returns("za_density_sph",
               za_density_sph(lib.args[1], lib.args[2], lib.args[3],
                              lib.args[4], lib.args[5]))

\* ------------------------------------------------------------------------
\* corrfunc.richardson
\* ------------------------------------------------------------------------
\* elementwise arithmetic on one-dimensional arrays, and with a scalar
VSub(a, b) == [k \in 1..Len(a) |-> RSub(a[k], b[k])]
VScale(c, a) == [k \in 1..Len(a) |-> RMul(c, a[k])]

\* an extrapolation step that cancels the power n = col_ind * base_pow but
\* divides by t ** n
RichardsonStep_plain(t, n, new, old) ==
    VScale(RDiv(R(1), RPow(t, n)), VSub(VScale(RPow(t, n), new), old))

\* "r = (t ** n * newrow[col_ind - 1] - table[row_ind - 1][col_ind - 1])
\*      / (t ** n - 1.0)"
RichardsonStep(t, n, new, old) ==
    VScale(RDiv(R(1), RSub(RPow(t, n), R(1))),
           VSub(VScale(RPow(t, n), new), old))

\* the inner loop: newrow grows until it has row_ind + 1 entries (row_ind
\* counts from 0), prev being the row above
RECURSIVE RichardsonRow(_, _, _, _, _)
RichardsonRow(newrow, prev, t, base_pow, row_ind) ==
    IF Len(newrow) > row_ind THEN newrow
    ELSE RichardsonRow(
             Append(newrow,
                    Vec(RichardsonStep(t, Len(newrow) * base_pow,
                                       newrow[Len(newrow)],
                                       prev[Len(newrow)]))),
             prev, t, base_pow, row_ind)

\* the outer loop: one row per estimate
RECURSIVE RichardsonTable(_, _, _, _)
RichardsonTable(table, estimates, t, base_pow) ==
    IF Len(table) = Len(estimates) THEN table
    ELSE RichardsonTable(
             Append(table,
                    RichardsonRow(<<estimates[Len(table) + 1]>>,
                                  IF table = <<>> THEN <<>>
                                  ELSE table[Len(table)],
                                  t, base_pow, Len(table))),
             estimates, t, base_pow)

\* a function that returns the first estimate in place of the apex
richardson_first(estimates, t, base_pow, return_table) ==
    Bind(RichardsonTable(<<>>, estimates, t, base_pow), LAMBDA table :
        IF return_table THEN table ELSE table[1][1])

\* richardson(estimates, t, base_pow, return_table): the triangular table,
\* or its apex table[k - 1][k - 1]
richardson(estimates, t, base_pow, return_table) ==
    Bind(RichardsonTable(<<>>, estimates, t, base_pow), LAMBDA table :
        IF return_table THEN table ELSE table[Len(table)][Len(table)])

\* the estimates f(h0 / t^i), i = 0 .. k - 1, of the error series
\* f(h) = L + c h^p + d h^(2p)
SeriesEstimates(s, t, p, k) ==
    [i \in 1..k |->
       Bind(RPow(RDiv(s.h0, RPow(t, i - 1)), p), LAMBDA hp :
           <<RAdd(s.L, RAdd(RMul(s.c, hp), RMul(s.d, RMul(hp, hp))))>>)]

\* the error series and the step ratios that are explored
Series ==
    [L : {R(0), R(3)}, c : {R(-1), R(2)}, d : {R(0), R(1)},
     h0 : {R(1), <<1, 2>>}]
StepRatios == {R(2), R(3), <<3, 2>>}
\* the largest error power of the series
MaxPow == 2

RichardsonCalls ==
    {[op |-> "richardson",
      args |-> <<SeriesEstimates(x[1], x[2], x[3], 3), x[2], x[3], x[4]>>] :
        x \in Series \X StepRatios \X (1..MaxPow) \X BOOLEAN}

\* calls with one or two estimates, and calls whose step ratio is 1 (every
\* extrapolation step then divides by zero)
RichardsonShortCalls ==
    {[op |-> "richardson",
      args |-> <<SeriesEstimates(x[1], x[2], x[3], x[5]), x[2], x[3], x[4]>>] :
        x \in {s \in Series : s.h0 = R(1)} \X (StepRatios \cup {R(1)})
                 \X (1..MaxPow) \X BOOLEAN \X {1, 2}}

CallRichardson ==
    /\ lib.op = "richardson"
    /\ Returns("richardson",
               richardson(lib.args[1], lib.args[2], lib.args[3],
                          lib.args[4]))

\* ------------------------------------------------------------------------
\* corrfunc.corr_to_clarray, called directly
\* ------------------------------------------------------------------------
\* the largest multipole of the direct calls
MaxL == 2

\* the arrays of distances that are explored: one shell, two shells in
\* either order, two shells at the same distance, and three shells of
\* which the nearest two coincide
CorrDistances ==
    {<<R(2)>>, <<R(2), R(6)>>, <<R(6), R(2)>>, <<R(2), R(2)>>,
     <<R(3), R(2), R(2)>>}

\* the calls of corr_to_clarray that are explored, as <<corr, lmax, xarray,
\* xromb, q>>: few nodes, BatchSize nodes with and without the integration
\* over the bins, and node counts of one batch and of two unequal batches
CorrCalls ==
    {[op |-> "corr_to_clarray", args |-> a] : a \in
        ({"corr0"} \X (1..MaxL) \X {<<R(2), R(6)>>} \X {0, 1} \X {1, 4})
        \cup ({"corr0", "corr2"} \X {MaxL} \X CorrDistances \X {0, 1}
                \X {(BatchSize + MaxL - 1) \div MaxL})
        \cup ({"corr0"} \X {1} \X {<<R(2), R(6)>>} \X {0}
                \X {BatchSize, 2 * BatchSize + 1})}

CallCorrToClarray ==
    /\ lib.op = "corr_to_clarray"
    /\ Returns("corr_to_clarray",
               corr_to_clarray(lib.args[1], lib.args[2], lib.args[3],
                               lib.args[4], lib.args[5]))

\* ------------------------------------------------------------------------
\* corrfunc.ps_to_corr and the integrators behind it
\* ------------------------------------------------------------------------
\* A radius is held as [log, off]: the value 10 ** log * (1 + off * 1e-8),
\* log being a rational and off a whole number of OffUnit-ths; the radius
\* 0 has log = -inf.
OffUnit == 100000000
Radius(e) == [log |-> e, off |-> 0]
ZeroRadius == [log |-> RNeg(Inf), off |-> 0]
\* a < b for two radii
RadLt(a, b) ==
    \/ RLt(a.log, b.log)
    \/ a.log = b.log /\ IsFinite(a.log) /\ a.off < b.off

\* int(a): the whole part of the finite value a
RTrunc(a) == IF a[1] >= 0 THEN a[1] \div a[2] ELSE -((-a[1]) \div a[2])

\* the grid of logspace with the end point always included
logspace_closed(start, stop, num, endpoint) ==
    [i \in 1..num |->
       Radius(IF num = 1 THEN start
              ELSE RAdd(start,
                        RDiv(RMul(R(i - 1), RSub(stop, start)),
                             R(num - 1))))]

\* np.logspace(start, stop, num, endpoint): num radii whose logarithms are
\* evenly spaced from start; a negative num raises ValueError
logspace(start, stop, num, endpoint) ==
    [i \in 1..num |->
       Radius(IF num = 1 THEN start
              ELSE RAdd(start,
                        RDiv(RMul(R(i - 1), RSub(stop, start)),
                             R(IF endpoint THEN num - 1 ELSE num))))]

\* 10 ** e for a finite e, the fractional power resolved to half decades
RECURSIVE IPow10(_)
IPow10(n) == IF n = 0 THEN 1 ELSE 10 * IPow10(n - 1)
Pow10(e) ==
    RMul(IF RFloor(e) >= 0 THEN R(IPow10(RFloor(e)))
         ELSE <<1, IPow10(-RFloor(e))>>,
         IF RSub(e, R(RFloor(e))) = R(0) THEN R(1)
         ELSE IF RLt(RSub(e, R(RFloor(e))), <<1, 2>>) THEN RSqrt(RSqrt(R(10)))
         ELSE RSqrt(R(10)))

\* the relative and absolute tolerances of np.allclose, 1e-5 and 1e-8, in
\* units of 1 / OffUnit
RtolUnits == 1000
AtolUnits == 1

\* |a - b| / |b| in units of 1 / OffUnit, to the precision of Pow10 when
\* the two radii are at different logarithms
RelDiff(a, b) ==
    IF a.log = b.log THEN Abs(a.off - b.off)
    ELSE IF RLt(a.log, b.log)
    THEN RFloor(RMul(RSub(R(1), Pow10(RSub(a.log, b.log))),
                     R(OffUnit \div Precision))) * Precision
    ELSE IF RFloor(Pow10(RSub(a.log, b.log))) >= 2 THEN OffUnit
    ELSE RFloor(RMul(RSub(Pow10(RSub(a.log, b.log)), R(1)),
                     R(OffUnit \div Precision))) * Precision

\* the comparison of two grids entry by entry without any tolerance
allclose_exact(a, b) == a = b

\* np.allclose(a, b): |a - b| <= atol + rtol * |b| for every pair of
\* entries, here divided by |b| / (1 + b.off / OffUnit)
allclose(a, b) ==
    /\ Len(a) = Len(b)
    /\ \A i \in 1..Len(a) :
           RelDiff(a[i], b[i]) <=
               RFloor(RAdd(RAdd(R(RtolUnits),
                                <<b[i].off, OffUnit \div RtolUnits>>),
                           RDiv(R(AtolUnits), Pow10(b[i].log))))

\* a[start :: step] with start counted from 0
Decimate(a, start, step) ==
    [m \in 1..((Len(a) - start + step - 1) \div step) |->
       a[start + 1 + (m - 1) * step]]

\* the correlation function of the power spectrum psfunc at the radius r,
\* decreasing in r; psfunc is "ps1" or "ps2"
XiExact(psfunc, r) ==
    IF ~IsFinite(r.log) THEN R(IF psfunc = "ps1" THEN 1 ELSE 2)
    ELSE RDiv(R(IF psfunc = "ps1" THEN 1 ELSE 2), RAdd(R(10), r.log))

\* _corr_direct(psfunc, log_k0, log_k1, r): one value per radius
corr_direct(psfunc, r) == [i \in 1..Len(r) |-> XiExact(psfunc, r[i])]

\* hankl.P2xi(k, func(k), 0, lowring=False): the radii are the reciprocals
\* of the wavenumbers in reverse order, and the transform carries a
\* discretisation error in powers of the spacing of log k.  drift is the
\* relative error, in units of 1 / OffUnit, that the radii carry.
P2xi(psfunc, k, drift) ==
    [r |-> [j \in 1..Len(k) |->
              [log |-> RNeg(k[Len(k) + 1 - j].log), off |-> drift]],
     xi |-> [j \in 1..Len(k) |->
              RAdd(XiExact(psfunc, Radius(RNeg(k[Len(k) + 1 - j].log))),
                   IF Len(k) < 2 THEN R(0)
                   ELSE RAdd(RSub(k[2].log, k[1].log),
                             RPow(RSub(k[2].log, k[1].log), 2)))]]

\* _work(ii): the transform upsampled by u = 2 ** ii and decimated back
HanklWork(psfunc, rlow, rhigh, n, ii, drift) ==
    [rt |-> Decimate(P2xi(psfunc,
                          logspace(RNeg(rhigh), RNeg(rlow), n * (2 ^ ii),
                                   FALSE), drift).r,
                     2 ^ ii - 1, 2 ^ ii),
     xit |-> Decimate(P2xi(psfunc,
                           logspace(RNeg(rhigh), RNeg(rlow), n * (2 ^ ii),
                                    FALSE), drift).xi,
                      2 ^ ii - 1, 2 ^ ii)]

\* "(np.log10(rs[0]) >= logrmin) & (np.log10(rs[0]) <= logrmax)": whether
\* the rounded logarithm of a radius exactly at a limit passes is tie
InWindow(r, logrmin, logrmax, tie) ==
    /\ \/ RLt(logrmin, r.log)
       \/ r.log = logrmin /\ (r.off > 0 \/ (r.off = 0 /\ tie))
    /\ \/ RLt(r.log, logrmax)
       \/ r.log = logrmax /\ (r.off < 0 \/ (r.off = 0 /\ tie))

\* a[mask] for the mask that InWindow gives on the radii r
RECURSIVE Trim(_, _, _, _, _)
Trim(a, r, logrmin, logrmax, tie) ==
    IF a = <<>> THEN <<>>
    ELSE (IF InWindow(Head(r), logrmin, logrmax, tie) THEN <<Head(a)>>
          ELSE <<>>)
         \o Trim(Tail(a), Tail(r), logrmin, logrmax, tie)

\* the part of _corr_hankl_richardson after the transforms: the check of
\* the grids, the trimming and the extrapolation
HanklExtrapolate(works, logrmin, logrmax, tie) ==
    IF \E ii \in 2..Len(works) : ~allclose(works[ii].rt, works[1].rt)
    THEN [ok |-> FALSE, err |-> "AssertionError",
          rs |-> [ii \in 1..Len(works) |-> works[ii].rt],
          r |-> <<>>, xi |-> <<>>]
    ELSE [ok |-> TRUE, err |-> "",
          rs |-> [ii \in 1..Len(works) |-> works[ii].rt],
          r |-> Trim(works[1].rt, works[1].rt, logrmin, logrmax, tie),
          xi |-> richardson(
                     [ii \in 1..Len(works) |->
                        Trim(works[ii].xit, works[1].rt, logrmin, logrmax,
                             tie)],
                     R(2), 1, FALSE)]

\* _corr_hankl_richardson(func, logrmin, logrmax, samples_per_decade,
\* richardson_n, pad_low, pad_high); drift = [at, off] is the error of the
\* radii that hankl returns at the upsampling 2 ** at
corr_hankl_richardson(psfunc, logrmin, logrmax, samples_per_decade, richardson_n, pad_low, pad_high, tie, drift) ==
    HanklExtrapolate(
        [i \in 1..richardson_n |->
           HanklWork(psfunc, RSub(logrmin, pad_low), RAdd(logrmax, pad_high),
                     RTrunc(RMul(R(samples_per_decade),
                                 RSub(RAdd(logrmax, pad_high),
                                      RSub(logrmin, pad_low)))),
                     i - 1, IF drift.at = i - 1 THEN drift.off ELSE 0)],
        logrmin, logrmax, tie)

\* _corr_hankel(func, logrmin, logrmax, samples_per_decade)
corr_hankel(psfunc, logrmin, logrmax, samples_per_decade) ==
    [ok |-> TRUE, err |-> "", rs |-> <<>>,
     r |-> logspace(logrmin, logrmax,
                    RTrunc(RMul(RSub(logrmax, logrmin),
                                R(samples_per_decade))) + 1, TRUE),
     xi |-> corr_direct(psfunc,
                logspace(logrmin, logrmax,
                         RTrunc(RMul(RSub(logrmax, logrmin),
                                     R(samples_per_decade))) + 1, TRUE))]

\* the tail of ps_to_corr: the zero lag is inserted and the two regimes
\* are concatenated
PsConcat(psfunc, rlow, high) ==
    IF ~high.ok THEN [ok |-> FALSE, err |-> high.err, ra |-> <<>>,
                      Fr |-> <<>>, nlow |-> 0]
    ELSE [ok |-> TRUE, err |-> "",
          ra |-> (<<ZeroRadius>> \o rlow) \o high.r,
          Fr |-> corr_direct(psfunc, <<ZeroRadius>> \o rlow) \o high.xi,
          nlow |-> Len(rlow) + 1]

\* ps_to_corr(psfunc, minlogr, maxlogr, switchlogr, samples_per_decade,
\* fftlog, richardson_n=...): nlow is the number of radii of the direct
\* integration
ps_to_corr(psfunc, minlogr, maxlogr, switchlogr, samples_per_decade, fftlog, richardson_n, tie, drift) ==
    IF RTrunc(RMul(RSub(switchlogr, minlogr), R(samples_per_decade))) < 0
    THEN [ok |-> FALSE, err |-> "ValueError", ra |-> <<>>, Fr |-> <<>>,
          nlow |-> 0]
    ELSE PsConcat(psfunc,
             logspace(minlogr, switchlogr,
                      RTrunc(RMul(RSub(switchlogr, minlogr),
                                  R(samples_per_decade))), FALSE),
             IF fftlog
             THEN corr_hankl_richardson(psfunc, switchlogr, maxlogr,
                                        samples_per_decade, richardson_n,
                                        R(2), R(1), tie, drift)
             ELSE corr_hankel(psfunc, switchlogr, maxlogr,
                              samples_per_decade))

\* the largest number of estimates that the extrapolation is given
MaxRichardson == 3

\* the errors of the radii of hankl that are explored: none, one within
\* the tolerance of the check, and one beyond it
HanklDrifts ==
    {[at |-> 0, off |-> 0]}
    \cup [at : 1..(MaxRichardson - 1), off : {1, 5 * RtolUnits}]

\* the calls of ps_to_corr that are explored, as <<psfunc, minlogr,
\* maxlogr, switchlogr, samples_per_decade, fftlog, richardson_n>>
PsCalls ==
    {[op |-> "ps_to_corr", args |-> a] : a \in
        {"ps1", "ps2"} \X {R(-1), R(0), R(1)} \X {R(2), <<5, 2>>}
        \X {R(1), <<1, 2>>} \X {1, 2} \X BOOLEAN \X {MaxRichardson}}

\* the calls of _corr_hankl_richardson that are explored, as <<func,
\* logrmin, logrmax, samples_per_decade, richardson_n, pad_low, pad_high>>
HanklCalls ==
    {[op |-> "_corr_hankl_richardson", args |-> a] : a \in
        {"ps1"} \X {R(0), R(1)} \X {R(2)} \X {1, 2} \X (1..MaxRichardson)
        \X {R(2), R(0)} \X {R(1)}}

CallPsToCorr ==
    /\ lib.op = "ps_to_corr"
    /\ \E tie \in BOOLEAN, drift \in HanklDrifts :
           Returns("ps_to_corr",
                   ps_to_corr(lib.args[1], lib.args[2], lib.args[3],
                              lib.args[4], lib.args[5], lib.args[6],
                              lib.args[7], tie, drift))

CallCorrHanklRichardson ==
    /\ lib.op = "_corr_hankl_richardson"
    /\ \E tie \in BOOLEAN, drift \in HanklDrifts :
           Returns("_corr_hankl_richardson",
                   corr_hankl_richardson(lib.args[1], lib.args[2],
                                         lib.args[3], lib.args[4],
                                         lib.args[5], lib.args[6],
                                         lib.args[7], tie, drift))

\* ------------------------------------------------------------------------
\* GeneratePolynomialBias.setup and FingersOfGod.setup
\* ------------------------------------------------------------------------
\* lssmodels.bias[model] and lssmodels.sigma_P[model]: the polynomial that
\* a named model stands for
lssmodels_bias(model) == [z_eff |-> R(2), coeff |-> <<R(1), R(-1)>>]
lssmodels_sigma_P(model) == [z_eff |-> R(2), coeff |-> <<R(3)>>]

\* a setup that looks at the named model first
GeneratePolynomialBias_setup_model_first(cfg) ==
    IF cfg.model # None
    THEN [ok |-> TRUE, err |-> "", poly |-> lssmodels_bias(cfg.model[1])]
    ELSE IF cfg.z_eff # None /\ cfg.bias_coeff # None
    THEN [ok |-> TRUE, err |-> "",
          poly |-> [z_eff |-> cfg.z_eff[1], coeff |-> cfg.bias_coeff[1]]]
    ELSE [ok |-> FALSE, err |-> "CaputConfigError", poly |-> <<>>]

\* GeneratePolynomialBias.setup: poly is the polynomial that self._bias
\* evaluates
GeneratePolynomialBias_setup(cfg) ==
    IF cfg.z_eff # None /\ cfg.bias_coeff # None
    THEN [ok |-> TRUE, err |-> "",
          poly |-> [z_eff |-> cfg.z_eff[1], coeff |-> cfg.bias_coeff[1]]]
    ELSE IF cfg.model # None
    THEN [ok |-> TRUE, err |-> "", poly |-> lssmodels_bias(cfg.model[1])]
    ELSE [ok |-> FALSE, err |-> "CaputConfigError", poly |-> <<>>]

\* FingersOfGod.setup: poly is the polynomial that self._sigma_P evaluates
FingersOfGod_setup(cfg) ==
    IF cfg.z_eff # None /\ cfg.FoG_coeff # None
    THEN [ok |-> TRUE, err |-> "",
          poly |-> [z_eff |-> cfg.z_eff[1], coeff |-> cfg.FoG_coeff[1]]]
    ELSE IF cfg.model # None
    THEN [ok |-> TRUE, err |-> "", poly |-> lssmodels_sigma_P(cfg.model[1])]
    ELSE [ok |-> FALSE, err |-> "CaputConfigError", poly |-> <<>>]

\* the settings of the three properties that are explored: unset, or set
\* (a z_eff of 0 and an empty list of coefficients are set as well)
PolySettings ==
    {None, Some(R(0)), Some(R(1))}
    \X {None, Some(<<>>), Some(<<R(2), R(1)>>)}
    \X {None, Some("model_a")}

SetupCalls ==
    {[op |-> "GeneratePolynomialBias.setup",
      args |-> <<[z_eff |-> s[1], bias_coeff |-> s[2], model |-> s[3]]>>] :
        s \in PolySettings}
    \cup {[op |-> "FingersOfGod.setup",
           args |-> <<[z_eff |-> s[1], FoG_coeff |-> s[2], model |-> s[3]]>>] :
             s \in PolySettings}

CallBiasSetup ==
    /\ lib.op = "GeneratePolynomialBias.setup"
    /\ Returns("GeneratePolynomialBias.setup",
               GeneratePolynomialBias_setup(lib.args[1]))

CallFoGSetup ==
    /\ lib.op = "FingersOfGod.setup"
    /\ Returns("FingersOfGod.setup", FingersOfGod_setup(lib.args[1]))

\* ------------------------------------------------------------------------
\* exponential_FoG_kernel and lognormal_transform, called directly
\* ------------------------------------------------------------------------
\* the calls of exponential_FoG_kernel that are explored, as <<chi, sigmaP,
\* D>>: even and uneven grids in either direction, a grid of two shells at
\* the same distance, constant and varying smoothing scales and growth
\* factors
FoGKernelCalls ==
    {[op |-> "exponential_FoG_kernel",
      args |-> <<c, SubSeq(s, 1, Len(c)), SubSeq(d, 1, Len(c))>>] :
        c \in {<<R(1), R(2), R(3)>>, <<R(1), R(2), R(4)>>,
               <<R(3), R(2), R(1)>>, <<R(1), R(2)>>, <<R(1), R(1)>>},
        s \in {<<R(1), R(1), R(1)>>, <<R(2), R(1), R(2)>>},
        d \in {<<R(1), R(1), R(1)>>, <<<<1, 2>>, <<1, 2>>, <<1, 2>>>>,
               <<R(1), <<1, 2>>, <<1, 4>>>>}}

CallFoGKernel ==
    /\ lib.op = "exponential_FoG_kernel"
    /\ Returns("exponential_FoG_kernel",
               exponential_FoG_kernel(lib.args[1], lib.args[2], lib.args[3]))

\* the fields that lognormal_transform is called with: all zero, constant,
\* and varying within and between the rows
LognormalFields ==
    {<<<<R(0), R(0)>>, <<R(0), R(0)>>>>,
     <<<<R(1), R(1)>>, <<R(1), R(1)>>>>,
     <<<<R(1), R(-1)>>, <<R(0), R(0)>>>>,
     <<<<R(1), R(-1)>>, <<R(2), R(0)>>>>,
     <<<<<<1, 2>>, <<-1, 2>>, R(0)>>, <<R(1), R(0), R(-1)>>>>}

\* the calls of lognormal_transform that are explored, as <<field, axis>>
LognormalCalls ==
    {[op |-> "lognormal_transform", args |-> <<f, a>>] :
        f \in LognormalFields, a \in {None, Some(1)}}

CallLognormalTransform ==
    /\ lib.op = "lognormal_transform"
    /\ Returns("lognormal_transform",
               lognormal_transform(lib.args[1], lib.args[2]))

\* the calls of za_density_grid and za_density_sph on a uniform field
\* (delta_bias = 0, out = 0) of MaxShells shells, first at chi = 1, 2, ...: every
\* particle of shell ii is displaced radially by rad[ii] and by ang in the
\* two angular directions; delta_m is dm everywhere
ZaMassCalls ==
    {[op |-> f,
      args |-> << << [ii \in 1..MaxShells |-> Full1(Npix(1), rad[ii])],
                     Full2(<<MaxShells, Npix(1)>>, ang[1]),
                     Full2(<<MaxShells, Npix(1)>>, ang[2]) >>,
                  Full2(<<MaxShells, Npix(1)>>, R(0)),
                  Full2(<<MaxShells, Npix(1)>>, dm),
                  [i \in 1..MaxShells |-> R(i)],
                  Full2(<<MaxShells, Npix(1)>>, R(0)) >>] :
        f \in {"za_density_grid", "za_density_sph"},
        rad \in [1..MaxShells -> {<<-1, 2>>, R(0), <<1, 2>>}],
        ang \in {<<R(0), R(0)>>, <<<<1, 2>>, R(0)>>, <<R(0), <<1, 4>>>>},
        dm \in {R(0), R(1)}}
    \cup
    \* shells at chi = 1, 4, ... and radial displacements that take
    \* particles beyond the cell added at either end of the grid
    {[op |-> f,
      args |-> << << [ii \in 1..MaxShells |-> Full1(Npix(1), rad[ii])],
                     Full2(<<MaxShells, Npix(1)>>, R(0)),
                     Full2(<<MaxShells, Npix(1)>>, R(0)) >>,
                  Full2(<<MaxShells, Npix(1)>>, R(0)),
                  Full2(<<MaxShells, Npix(1)>>, R(0)),
                  [i \in 1..MaxShells |-> R(i * i)],
                  Full2(<<MaxShells, Npix(1)>>, R(0)) >>] :
        f \in {"za_density_grid", "za_density_sph"},
        rad \in [1..MaxShells -> {R(-4), R(4)}]}

\* the calls of _calculate_width that are explored: two or three strictly
\* increasing bin centres
WidthCentres == {R(0), R(1), R(2), R(4), <<5, 2>>}
WidthCalls ==
    {[op |-> "_calculate_width", args |-> <<c>>] :
        c \in {s \in (WidthCentres \X WidthCentres)
                       \cup (WidthCentres \X WidthCentres \X WidthCentres) :
                 \A k \in 1..(Len(s) - 1) : RLt(s[k], s[k + 1])}}

CallCalculateWidth ==
    /\ lib.op = "_calculate_width"
    /\ Returns("_calculate_width", calculate_width(lib.args[1]))

\* ------------------------------------------------------------------------
\* FingersOfGod followed by AddCorrelatedShotNoise
\* ------------------------------------------------------------------------
\* the pipeline hands the field the FingersOfGod stage just returned to
\* task k; the record of the call keeps that of the stage upstream
NoiseAfterFoG(k) ==
    /\ last.op = "FingersOfGod"
    /\ last.err = ""
    /\ sn[k].state = "ready"
    /\ nnoise < MaxNoise
    /\ \E r \in {AddCorrelatedShotNoise_process(sn[k], last.out, heap)} :
           /\ heap' = r.heap
           /\ sn' = [sn EXCEPT ![k] = r.task]
           /\ last' = [op |-> "AddCorrelatedShotNoise", cfg |-> sn[k].cfg,
                       ins |-> <<last.out>>, out |-> r.out, err |-> r.err,
                       evals |-> {}, pre |-> heap, created |-> FALSE,
                       noise |-> r.noise, upstream |-> last]
    /\ nnoise' = nnoise + 1
    /\ made' = [j \in 1..Len(heap') |->
                  IF j <= Len(made) THEN made[j]
                  ELSE "AddCorrelatedShotNoise"]
    /\ UNCHANGED <<gi, calls, lib>>

\* the smoothing stages of the pipeline come before its shot-noise stage
FoGBeforeNoise(cfg, id) ==
    /\ nnoise = 0
    /\ FoGStage(cfg, id)

FoGNoiseNext ==
    \/ \E k \in 1..Len(sn) : \E cfg \in NoiseConfigs :
         \E id \in 1..Len(heap) : SNSetup(k, cfg, id)
    \/ \E cfg \in FoGConfigs : \E id \in 1..Len(heap) :
         FoGBeforeNoise(cfg, id)
    \/ \E k \in 1..Len(sn) : NoiseAfterFoG(k)

\* the pipelines that smooth a field and then add shot noise to the result
FoGNoiseSpec == NoiseInit /\ [][FoGNoiseNext]_vars

\* the initial fields handed to AddCorrelatedShotNoise.setup directly: two
\* shells of resolution 4 (192 pixels) whose delta data differ in pixel 99,
\* in pixel 100 and in the last pixel (indices from 0) of every shell
SeedField(v) ==
    [chi |-> <<R(1), R(2)>>,
     redshift |-> <<R(1), R(2)>>,
     delta |-> [i \in 1..2 |->
                  [p \in 1..Npix(4) |->
                     IF p = 100 THEN v[1]
                     ELSE IF p = 101 THEN v[2]
                     ELSE IF p = Npix(4) THEN v[3]
                     ELSE R((p + i) % 3)]]]
SeedFields ==
    {SeedField(v) : v \in {R(0), R(1)} \X {R(0), R(1)} \X {R(0), <<1, 2>>}}
NoiseSetupCalls ==
    {[op |-> "AddCorrelatedShotNoise.setup", args |-> <<c, f>>] :
        c \in NoiseConfigs, f \in SeedFields}

CallNoiseSetup ==
    /\ lib.op = "AddCorrelatedShotNoise.setup"
    /\ Returns("AddCorrelatedShotNoise.setup",
               AddCorrelatedShotNoise_setup(lib.args[1], 0, lib.args[2]))

\* the calls that are explored
LibCalls == ZaCalls \cup ZaMassCalls \cup RichardsonCalls
    \cup RichardsonShortCalls \cup CorrCalls
    \cup PsCalls \cup HanklCalls \cup SetupCalls
    \cup FoGKernelCalls \cup LognormalCalls \cup WidthCalls
    \cup NoiseSetupCalls

LibInit ==
    /\ gi = [state |-> "new", cfg |-> <<>>, num_sims |-> 0, seed |-> None]
    /\ calls = <<>>
    /\ heap = <<>>
    /\ last = NoCall
    /\ sn = <<>>
    /\ nnoise = 0
    /\ made = <<>>
    /\ lib \in {[op |-> c.op, args |-> c.args, done |-> FALSE, ret |-> <<>>] :
                  c \in LibCalls}

LibNext ==
    \/ CallZaDensityGrid
    \/ CallZaDensitySph
    \/ CallRichardson
    \/ CallCorrToClarray
    \/ CallPsToCorr
    \/ CallCorrHanklRichardson
    \/ CallBiasSetup
    \/ CallFoGSetup
    \/ CallFoGKernel
    \/ CallLognormalTransform
    \/ CallCalculateWidth
    \/ CallNoiseSetup

\* the direct calls of the library
LibSpec == LibInit /\ [][LibNext]_vars

\* ------------------------------------------------------------------------
\* Properties of the direct calls
\* ------------------------------------------------------------------------

\* a call of one of the two density functions has returned or raised
ZaReturned == lib.op \in {"za_density_grid", "za_density_sph"} /\ lib.done

\* the arrays of the returned call whose shape differs from the one that
\* delta_bias fixes
ZaOffending ==
    {n \in {"psi", "delta_m", "chi", "out"} :
        CASE n = "psi" -> Shape3(lib.args[1]) # <<3>> \o Shape2(lib.args[2])
          [] n = "delta_m" -> Shape2(lib.args[3]) # Shape2(lib.args[2])
          [] n = "chi" -> Len(lib.args[4]) # Shape2(lib.args[2])[1]
          [] n = "out" -> Shape2(lib.args[5]) # Shape2(lib.args[2])}

C12_ApexIsTheLimit ==
    (lib.op = "richardson" /\ lib.done) =>
        \A s \in Series :
            lib.args[1] = SeriesEstimates(s, lib.args[2], lib.args[3], 3) =>
                (IF lib.args[4] THEN lib.ret[3][3] ELSE lib.ret) = <<s.L>>

C12_Witness ==
    /\ lib.op = "richardson" /\ lib.done /\ ~lib.args[4]
    /\ lib.args[2] = <<3, 2>> /\ lib.args[3] = 2
    /\ lib.args[1] = SeriesEstimates([L |-> R(3), c |-> R(2), d |-> R(1),
                                      h0 |-> <<1, 2>>], <<3, 2>>, 2, 3)
    /\ lib.args[1][1] # lib.args[1][3]
    /\ lib.ret = <<R(3)>>

\* a call of corr_to_clarray has returned an array
ClReturned == lib.op = "corr_to_clarray" /\ lib.done /\ lib.ret.ok

\* every entry of the returned array compares equal to its transpose
\* (numpy's ==, under which nan differs from itself)
ClSymmetric ==
    \A l \in 1..Len(lib.ret.val) :
        \A i, j \in 1..Len(lib.args[3]) :
            ~RNeq(lib.ret.val[l][i][j], lib.ret.val[l][j][i])

\* the integration over the bins divides by a bin width of zero: xromb > 0
\* and the two smallest distances coincide
ZeroBinWidth ==
    lib.args[4] > 0 /\ HalfWidth(RSort(lib.args[3])) = R(0)

\* C13 as stated: the array returned by corr_to_clarray satisfies
\* C_l[i,j] == C_l[j,i] for every l and every pair of shells, for any
\* correlation function and any distances, with or without the integration
\* over the radial bins
C13_ClIsSymmetric == ClReturned => ClSymmetric

\* C13 amended: the returned array is symmetric in the two shells unless
\* the integration over the bins divides by a bin width of zero; in that
\* case every entry is nan
C13_ClIsSymmetricOffZeroWidth ==
    ClReturned =>
        IF ZeroBinWidth
        THEN \A l \in 1..Len(lib.ret.val) :
                 \A i, j \in 1..Len(lib.args[3]) : lib.ret.val[l][i][j] = NaN
        ELSE ClSymmetric

C13_Witness ==
    /\ ClReturned
    /\ lib.args[4] = 1
    /\ lib.args[3] = <<R(6), R(2)>>
    /\ IsFinite(lib.ret.val[1][1][2])
    /\ lib.ret.val[1][1][2] # R(0)
    /\ lib.ret.val[1][1][2] = lib.ret.val[1][2][1]
    /\ lib.ret.val[1][1][1] # lib.ret.val[1][2][2]
    /\ lib.ret.val[1][1][1] # lib.ret.val[1][1][2]

\* the returned call processed node m in exactly one pass of its loop
InOneBatch(m) ==
    Cardinality({<<k, a>> \in (1..Len(lib.ret.batches)) \X (1..(2 * BatchSize + 1)) :
                    /\ a <= Len(lib.ret.batches[k])
                    /\ lib.ret.batches[k][a] = m}) = 1

\* C14: for every lmax >= 1 and q >= 1, corr_to_clarray processes each of
\* the q * lmax quadrature nodes in exactly one batch and returns an array
\* of shape (lmax + 1, n_shell, n_shell)
C14_EveryNodeInOneBatch ==
    (lib.op = "corr_to_clarray" /\ lib.done
     /\ lib.args[2] >= 1 /\ lib.args[5] >= 1
     /\ (lib.args[4] > 0 => Len(lib.args[3]) >= 2)) =>
        /\ lib.ret.ok
        /\ \A m \in 1..(lib.args[5] * lib.args[2]) : InOneBatch(m)
        /\ Len(lib.ret.val) = lib.args[2] + 1
        /\ \A l \in 1..Len(lib.ret.val) :
               Shape2(lib.ret.val[l]) = <<Len(lib.args[3]), Len(lib.args[3])>>

\* a call of ps_to_corr has returned its two arrays
PsReturned == lib.op = "ps_to_corr" /\ lib.done /\ lib.ret.ok

\* C15: for minlogr < switchlogr < maxlogr, the radii that ps_to_corr
\* returns start with 0, increase strictly, are as many as the values, and
\* are the radii of the direct integration, all below 10 ** switchlogr,
\* followed by the radii of the large-r transform, all at or above it
C15_RadiiAreOrdered ==
    (PsReturned /\ RLt(lib.args[2], lib.args[4])
     /\ RLt(lib.args[4], lib.args[3])) =>
        /\ lib.ret.ra[1] = ZeroRadius
        /\ \A i \in 1..(Len(lib.ret.ra) - 1) :
               RadLt(lib.ret.ra[i], lib.ret.ra[i + 1])
        /\ Len(lib.ret.ra) = Len(lib.ret.Fr)
        /\ \A i \in 1..Len(lib.ret.ra) :
               IF i <= lib.ret.nlow
               THEN RadLt(lib.ret.ra[i], Radius(lib.args[4]))
               ELSE ~RadLt(lib.ret.ra[i], Radius(lib.args[4]))

C15_Witness ==
    /\ PsReturned
    /\ lib.args[6]
    /\ lib.args[2] = R(-1) /\ lib.args[4] = R(1) /\ lib.args[3] = R(2)
    /\ lib.args[5] = 2
    /\ lib.ret.nlow = 5
    /\ Len(lib.ret.ra) = 8
    /\ lib.ret.ra[6] = Radius(R(1))
    /\ lib.ret.ra[5] = Radius(<<1, 2>>)

\* a call of _corr_hankl_richardson has ended
HanklEnded == lib.op = "_corr_hankl_richardson" /\ lib.done

\* every decimated grid agrees with the grid of factor 2 ** 0 to within
\* the tolerance rtol * r + atol
GridsWithinTolerance ==
    \A ii \in 2..Len(lib.ret.rs) :
        \A m \in 1..Len(lib.ret.rs[1]) :
            ~RLt(RAdd(R(RtolUnits),
                      RDiv(R(AtolUnits), Pow10(lib.ret.rs[1][m].log))),
                 R(RelDiff(lib.ret.rs[ii][m], lib.ret.rs[1][m])))

\* C16 as stated: _corr_hankl_richardson extrapolates only if the
\* decimated grids of all upsampling factors are exactly the grid of
\* factor 2 ** 0; if a grid differs nothing is returned
C16_ExtrapolatesOnlyOnEqualGrids ==
    HanklEnded =>
        (lib.ret.ok <=>
            \A ii \in 2..Len(lib.ret.rs) : lib.ret.rs[ii] = lib.ret.rs[1])

\* C16 amended: _corr_hankl_richardson extrapolates exactly when every
\* decimated grid agrees with the grid of factor 2 ** 0 to within the
\* tolerance of np.allclose; otherwise the assertion fails and neither
\* radii nor values are returned
C16_ExtrapolatesOnCloseGrids ==
    HanklEnded =>
        /\ lib.ret.ok <=> GridsWithinTolerance
        /\ lib.ret.ok => Len(lib.ret.xi) = Len(lib.ret.r)
        /\ ~lib.ret.ok =>
               /\ lib.ret.err = "AssertionError"
               /\ lib.ret.r = <<>> /\ lib.ret.xi = <<>>

C16_Witness ==
    /\ HanklEnded
    /\ lib.args[5] = MaxRichardson
    /\ ~lib.ret.ok
    /\ lib.ret.rs[2] = lib.ret.rs[1]
    /\ lib.ret.rs[3] # lib.ret.rs[1]
    /\ \A m \in 1..Len(lib.ret.rs[1]) :
           lib.ret.rs[3][m].log = lib.ret.rs[1][m].log

\* a setup of one of the two stages has ended, and the coefficients it was
\* configured with
PolySetupEnded ==
    lib.done /\ lib.op \in {"GeneratePolynomialBias.setup",
                            "FingersOfGod.setup"}
PolyCoeff ==
    IF lib.op = "FingersOfGod.setup" THEN lib.args[1].FoG_coeff
    ELSE lib.args[1].bias_coeff

\* C17: the setup of GeneratePolynomialBias and of FingersOfGod raises a
\* configuration error exactly when no model is named and z_eff and the
\* coefficients are not both set; when a model is named and both are set,
\* the polynomial of z_eff and the coefficients is used, not the model
C17_SetupNeedsModelOrPair ==
    PolySetupEnded =>
        /\ ~lib.ret.ok <=>
               /\ lib.args[1].model = None
               /\ (lib.args[1].z_eff = None \/ PolyCoeff = None)
        /\ ~lib.ret.ok => lib.ret.err = "CaputConfigError"
        /\ (lib.args[1].z_eff # None /\ PolyCoeff # None) =>
               lib.ret.poly = [z_eff |-> lib.args[1].z_eff[1],
                               coeff |-> PolyCoeff[1]]

C17_Witness ==
    /\ PolySetupEnded
    /\ lib.op = "GeneratePolynomialBias.setup"
    /\ lib.args[1].model # None
    /\ lib.args[1].z_eff = Some(R(0))
    /\ lib.args[1].bias_coeff = Some(<<R(2), R(1)>>)
    /\ lib.ret.ok
    /\ evaluate_poly(R(1), lib.ret.poly.z_eff, lib.ret.poly.coeff) = R(3)
    /\ evaluate_poly(R(1), lssmodels_bias("model_a").z_eff,
                     lssmodels_bias("model_a").coeff) # R(3)

\* C18: setup of GenerateInitialLSS raises when neither redshift nor
\* frequencies is configured, and no call of process returns a realisation
\* for such a configuration; when both are configured, the realisation is
\* made for the redshifts derived from frequencies, not for the redshift
\* property
C18_RedshiftOrFrequencies ==
    gi.state # "new" =>
        /\ (IsNone(gi.cfg.redshift) /\ IsNone(gi.cfg.frequencies)) =>
               /\ gi.state = "setup_failed"
               /\ \A i \in 1..Len(calls) : calls[i].result # "field"
        /\ gi.state = "setup_failed" =>
               IsNone(gi.cfg.redshift) /\ IsNone(gi.cfg.frequencies)
        /\ ~IsNone(gi.cfg.frequencies) =>
               \A i \in 1..Len(calls) :
                   calls[i].result = "field" =>
                       /\ heap[calls[i].out].redshift =
                              FreqToRedshift(Get(gi.cfg.frequencies))
                       /\ Len(heap[calls[i].out].delta) =
                              Len(Get(gi.cfg.frequencies))
                       /\ heap[calls[i].out].chi =
                              [k \in 1..Len(Get(gi.cfg.frequencies)) |->
                                 comoving_distance(
                                     FreqToRedshift(
                                         Get(gi.cfg.frequencies))[k])]

C18_Witness ==
    /\ gi.state = "ready"
    /\ gi.cfg.redshift = Some(<<R(1)>>)
    /\ gi.cfg.frequencies = Some(<<R(710), R(355)>>)
    /\ Len(calls) >= 1
    /\ calls[1].result = "field"
    /\ heap[calls[1].out].redshift = <<R(1), R(3)>>
    /\ Len(heap[calls[1].out].delta) = 2

\* a call of exponential_FoG_kernel has returned, and every bin of its
\* radial grid has a width
KernelReturned == lib.op = "exponential_FoG_kernel" /\ lib.done
BinsHaveWidth ==
    \A k \in 1..Len(lib.args[1]) : calculate_width(lib.args[1])[k] # R(0)

LognormalReturned == lib.op = "lognormal_transform" /\ lib.done
AlongAxis(m, i) == IF IsNone(lib.args[2]) THEN Flatten(m) ELSE m[i]
MeanExpOut(i) ==
    RMean([k \in 1..Len(AlongAxis(lib.ret, i)) |->
             RExp(AlongAxis(lib.ret, i)[k])])

\* C20 as stated: for any finite input field the mean of exp(out) over the
\* transform axis is 1, to the precision of the exponential
C20_MeanOfExpIsOne ==
    LognormalReturned =>
        \A i \in 1..Len(lib.ret) :
            ~RLt(<<2, Precision>>, RAbs(RSub(MeanExpOut(i), R(1))))

\* C20 amended: for any finite input field, out = exp(field - var / 2) - 1
\* with var the variance of the field along the transform axis, so out is
\* nowhere below -1, and out is zero (the mean of exp(out) is 1) for a
\* field that is zero everywhere
C20_OutIsShiftedExponential ==
    LognormalReturned =>
        /\ \A i \in 1..Len(lib.ret) : \A p \in 1..Len(lib.ret[i]) :
               /\ lib.ret[i][p] =
                      RSub(RExp(RSub(lib.args[1][i][p],
                                     RDiv(RVar(AlongAxis(lib.args[1], i)),
                                          R(2)))), R(1))
               /\ ~RLt(lib.ret[i][p], R(-1))
        /\ (\A i \in 1..Len(lib.ret) : \A p \in 1..Len(lib.ret[i]) :
                lib.args[1][i][p] = R(0)) =>
               \A i \in 1..Len(lib.ret) : MeanExpOut(i) = R(1)

C20_Witness ==
    /\ LognormalReturned
    /\ lib.args[1] = <<<<R(1), R(-1)>>, <<R(2), R(0)>>>>
    /\ lib.args[2] = Some(1)
    /\ lib.ret[1][1] = RSub(RExp(<<1, 2>>), R(1))
    /\ lib.ret[1][1] # lib.ret[2][1]
    /\ RLt(<<2, Precision>>, RAbs(RSub(MeanExpOut(1), R(1))))

\* a density function has returned the displaced field of a uniform input
ZaMassReturned ==
    /\ lib.done
    /\ lib.op \in {"za_density_grid", "za_density_sph"}
    /\ lib.ret.ok
    /\ lib.args[5] = Full2(<<MaxShells, Npix(1)>>, R(0))
    /\ lib.args[2] = Full2(<<MaxShells, Npix(1)>>, R(0))

\* the sum over all shells and pixels of 1 + delta
TotalMass(delta) ==
    RSum([k \in 1..Len(Flatten(delta)) |-> RAdd(R(1), Flatten(delta)[k])])

\* some component of the displacement field is not zero
Displaced == \E c \in 1..3 : lib.args[1][c][1][1] # R(0)

\* every particle stays between the first and the last shell
StaysInGrid ==
    \A ii \in 1..MaxShells :
        /\ ~RLt(RAdd(lib.args[4][ii], lib.args[1][1][ii][1]), lib.args[4][1])
        /\ ~RLt(lib.args[4][MaxShells],
                RAdd(lib.args[4][ii], lib.args[1][1][ii][1]))

\* C21 as stated: for a uniform input and any displacement field the total
\* mass of the output of za_density_grid and of za_density_sph equals the
\* total mass of the input
C21_MassIsConserved ==
    ZaMassReturned => TotalMass(lib.ret.val) = TotalMass(lib.args[2])

\* C21 amended: for a uniform input the total mass of the output of
\* za_density_sph equals that of the input for any displacement field, and
\* that of za_density_grid does when no particle is displaced beyond the
\* first or the last shell; a particle of za_density_grid that leaves this
\* range loses the share of its mass assigned to a shell outside the grid
C21_MassIsConservedInsideGrid ==
    ZaMassReturned =>
        /\ (lib.op = "za_density_sph" \/ StaysInGrid) =>
               TotalMass(lib.ret.val) = TotalMass(lib.args[2])
        /\ (lib.op = "za_density_grid" /\ ~StaysInGrid) =>
               RLt(TotalMass(lib.ret.val), TotalMass(lib.args[2]))

C21_Witness ==
    /\ ZaMassReturned
    /\ lib.op = "za_density_grid"
    /\ Displaced
    /\ lib.args[1][1][1][1] = <<1, 2>>
    /\ lib.args[1][1][MaxShells][1] = <<-1, 2>>
    /\ lib.args[1][2][1][1] = <<1, 2>>
    /\ StaysInGrid
    /\ lib.ret.val # lib.args[2]
    /\ TotalMass(lib.ret.val) = R(MaxShells * Npix(1))

\* the first call of process in the scenario of the specification has ended
ScenarioRan ==
    /\ gi.state = "ready"
    /\ gi.cfg = ScenarioConfig
    /\ Len(calls) >= 1

\* C22 (as claimed): a run of the scenario (start_seed = 42, nside = 4,
\* three shells, default xromb and leg_q) produces a field, and its delta is
\* the delta a second run with the same inputs produces
C22_ScenarioRunsAgree ==
    ScenarioRan =>
        /\ calls[1].result = "field"
        /\ GenerateField(ScenarioConfig, Some(ScenarioConfig.start_seed)).ok
        /\ heap[calls[1].out].delta =
               GenerateField(ScenarioConfig,
                             Some(ScenarioConfig.start_seed)).field.delta

\* C23: for k >= 1 estimates richardson builds a table of k rows in which
\* row i (from 0) has i + 1 entries, the first of them estimates[i]; it
\* returns the table when return_table is set and otherwise the last entry
\* of the last row, which is estimates[0] when k = 1
C23_TableIsTriangular ==
    (lib.op = "richardson" /\ lib.done /\ Len(lib.args[1]) >= 1) =>
        Bind(RichardsonTable(<<>>, lib.args[1], lib.args[2], lib.args[3]),
             LAMBDA table :
            /\ Len(table) = Len(lib.args[1])
            /\ \A i \in 1..Len(table) :
                   /\ Len(table[i]) = i
                   /\ table[i][1] = lib.args[1][i]
            /\ lib.args[4] => lib.ret = table
            /\ ~lib.args[4] =>
                   lib.ret = table[Len(table)][Len(table[Len(table)])]
            /\ (~lib.args[4] /\ Len(lib.args[1]) = 1) =>
                   lib.ret = lib.args[1][1])

C23_Witness ==
    /\ lib.op = "richardson" /\ lib.done /\ ~lib.args[4]
    /\ Len(lib.args[1]) = 2
    /\ lib.args[2] = R(2) /\ lib.args[3] = 1
    /\ lib.args[1] = <<<<R(5)>>, <<R(4)>>>>
    /\ lib.ret = <<R(3)>>

\* the radial distances of the shells process works with
ProcessDistances ==
    [i \in 1..Len(Get(ProcessRedshift(gi.cfg))) |->
       comoving_distance(Get(ProcessRedshift(gi.cfg))[i])]

\* the angular power spectra of the correlation function named corr for
\* the configuration of the task
ProcessCl(corr) ==
    corr_to_clarray(corr, 3 * gi.cfg.nside - 1, ProcessDistances,
                    gi.cfg.xromb, gi.cfg.leg_q).val

\* the covariance C24 describes, from the potential-potential spectra pp,
\* the density-potential spectra dp and the density-density spectra dd:
\* entry (a, b) of every multipole (0-based) is pp for a, b < nz, dd for
\* a, b >= nz and dp otherwise
BlockCovariance(pp, dp, dd, nz) ==
    [l \in 1..(3 * gi.cfg.nside) |->
      [a \in 1..(2 * nz) |->
        [b \in 1..(2 * nz) |->
          (IF a <= nz /\ b <= nz THEN pp
           ELSE IF a > nz /\ b > nz THEN dd
           ELSE dp)[l][((a - 1) % nz) + 1][((b - 1) % nz) + 1]]]]

\* the covariance of the configuration of the task
ProcessCovariance ==
    Bind(<<ProcessCl("corr4"), ProcessCl("corr2"), ProcessCl("corr0")>>,
         LAMBDA cl :
        BlockCovariance(cl[1], cl[2], cl[3], Len(ProcessDistances)))

\* C24: the field the latest call of process returned is realised from the covariance
\* of shape (lmax + 1, 2 nz, 2 nz), lmax = 3 nside - 1, that holds the
\* potential-potential array in block [0:nz, 0:nz], the density-potential
\* array in both off-diagonal blocks and the density-density array in block
\* [nz:2nz, nz:2nz]; shell i of phi is map i and shell i of delta is map
\* nz + i of the realisation
C24_BlocksAndMaps ==
    (gi.state = "ready" /\ calls # <<>>
     /\ calls[Len(calls)].result = "field") =>
        Bind(calls[Len(calls)], LAMBDA c :
        Bind(Len(ProcessDistances), LAMBDA nz :
        Bind(mkfullsky(ProcessCovariance, gi.cfg.nside, Get(c.rng)),
             LAMBDA sky :
            /\ Len(ProcessCovariance) = 3 * gi.cfg.nside
            /\ Len(sky) = 2 * nz
            /\ Len(heap[c.out].phi) = nz
            /\ Len(heap[c.out].delta) = nz
            /\ \A i \in 1..nz :
                   /\ heap[c.out].phi[i] = sky[i]
                   /\ heap[c.out].delta[i] = sky[nz + i])))

C24_Witness ==
    /\ gi.state = "ready"
    /\ gi.cfg.redshift = Some(<<R(1), R(2)>>)
    /\ gi.cfg.leg_q = 25
    /\ Len(calls) >= 1
    /\ calls[1].result = "field"
    /\ Len(heap[calls[1].out].phi) = 2
    /\ heap[calls[1].out].phi # heap[calls[1].out].delta
    /\ heap[calls[1].out].phi[1] # heap[calls[1].out].phi[2]
    /\ RRound(ProcessCovariance[1][1][1])
           # RRound(ProcessCovariance[1][3][3])

\* a call of za_density_grid with well-shaped arrays has returned; chi is
\* strictly increasing and has two shells or more
GridReturned ==
    /\ lib.done /\ lib.op = "za_density_grid" /\ lib.ret.ok
    /\ Len(lib.args[4]) >= 2
    /\ \A k \in 1..(Len(lib.args[4]) - 1) :
           RLt(lib.args[4][k], lib.args[4][k + 1])

\* the radial position particle p of shell ii is displaced to
NewChi(ii, p) == RAdd(lib.args[4][ii], lib.args[1][1][ii][p])

\* x lies in [chi_ext[0], chi_ext[-1])
InExtendedRange(x) ==
    /\ ~RLt(x, ChiExt(lib.args[4])[1])
    /\ RLt(x, ChiExt(lib.args[4])[Len(lib.args[4]) + 2])

\* C25: in za_density_grid with strictly increasing chi, for every displaced
\* particle every radial index whose weight is not flagged -1 lies in
\* 0..nchi-1, and when the new radial position lies in
\* [chi_ext[0], chi_ext[-1]) the two radial weights computed before flagging
\* are not negative and sum to 1
C25_RadialWeights ==
    GridReturned =>
        \A ii \in 1..Len(lib.args[4]) : \A p \in 1..Len(lib.args[2][ii]) :
            Bind(GridRadial(NewChi(ii, p), lib.args[4]), LAMBDA g :
                /\ \A k \in 1..2 :
                       g.flagged[k][2] # R(-1) =>
                           /\ g.flagged[k][1] \in 0..(Len(lib.args[4]) - 1)
                           /\ g.flagged[k][2] = g.raw[k]
                /\ InExtendedRange(NewChi(ii, p)) =>
                       /\ ~RLt(g.raw[1], R(0))
                       /\ ~RLt(g.raw[2], R(0))
                       /\ RAdd(g.raw[1], g.raw[2]) = R(1))

\* a particle moved from chi = 1 to chi = 5, between the last shell and the
\* upper end of the extended range of chi = (1, 4): a third of it is
\* assigned to the last shell and the rest is flagged
C25_Witness ==
    /\ GridReturned
    /\ lib.args[4][2] = R(4)
    /\ NewChi(1, 1) = R(5)
    /\ InExtendedRange(NewChi(1, 1))
    /\ ~InExtendedRange(NewChi(2, 1))
    /\ GridRadial(NewChi(1, 1), lib.args[4]).raw = << <<2, 3>>, <<1, 3>> >>
    /\ GridRadial(NewChi(1, 1), lib.args[4]).flagged[2][2] = R(-1)
    /\ GridRadial(NewChi(1, 1), lib.args[4]).flagged[1] = <<1, <<2, 3>>>>

\* C26 (as claimed): for strictly increasing bin centres, two or more,
\* every entry _calculate_width returns is strictly positive
C26_WidthsArePositive ==
    (lib.op = "_calculate_width" /\ lib.done) =>
        \A k \in 1..Len(lib.ret) : RLt(R(0), lib.ret[k])

\* shot noise was added to the field a FingersOfGod stage returned
NoisedAfterFoG ==
    /\ last.op = "AddCorrelatedShotNoise"
    /\ last.err = ""
    /\ last.upstream.op = "FingersOfGod"

\* C27: when the field X is passed through FingersOfGod.process and the
\* result to AddCorrelatedShotNoise.process, then with alpha_FoG = 0 the
\* result is X itself and the noise is added to the delta of X, and with
\* alpha_FoG != 0 the result is another object and the delta of X stays as
\* it was
C27_NoiseReachesInputOfFoGOff ==
    NoisedAfterFoG =>
        Bind(last.upstream.ins[1], LAMBDA X :
            IF last.upstream.cfg.alpha_FoG = R(0)
            THEN /\ last.ins[1] = X
                 /\ heap[X].delta =
                        MatAdd(last.upstream.pre[X].delta, last.noise)
            ELSE /\ last.ins[1] # X
                 /\ heap[X].delta = last.upstream.pre[X].delta)

C27_Witness ==
    /\ NoisedAfterFoG
    /\ last.upstream.cfg.alpha_FoG = R(0)
    /\ last.out = last.upstream.ins[1]
    /\ heap[last.out].delta # last.upstream.pre[last.out].delta
    /\ \E i \in 1..Len(last.noise) : \E p \in 1..Len(last.noise[i]) :
         IsFinite(last.noise[i][p]) /\ last.noise[i][p] # R(0)

\* C28: a call of process that fails after the num_sims check has taken
\* one from num_sims and left seed as it was, so the next call starts from
\* the same seed with one realisation fewer to generate
C28_FailedCallKeepsSeed ==
    \A k \in 1..Len(calls) :
        calls[k].result = "error" =>
            /\ calls[k].num_sims_after = calls[k].num_sims_before - 1
            /\ calls[k].seed_after = calls[k].seed_before
            /\ calls[k].out = 0
            /\ k < Len(calls) =>
                   /\ calls[k + 1].seed_before = calls[k].seed_before
                   /\ calls[k + 1].num_sims_before
                          = calls[k].num_sims_before - 1

C28_Witness ==
    /\ gi.state = "ready"
    /\ gi.cfg.start_seed = 5
    /\ gi.cfg.num_sims = 2
    /\ Len(calls) >= 2
    /\ calls[1].result = "error"
    /\ calls[1].cov
    /\ calls[1].num_sims_after = 1
    /\ calls[2].seed_before = Some(5)
    /\ calls[2].num_sims_before = 1

\* no call has raised PipelineStopIteration unless num_sims was configured
\* as a number that is not negative
StopsOnlyWhenCounted ==
    \A k \in 1..Len(calls) :
        calls[k].result = "PipelineStopIteration" => gi.cfg.num_sims >= 0

\* C29 (as claimed): process raises PipelineStopIteration only when
\* num_sims is configured as a number that is not negative; with a negative
\* num_sims every call (of a task set up in a job of one process) generates
\* another realisation
C29_NegativeNeverStops ==
    /\ StopsOnlyWhenCounted
    /\ (gi.state = "ready" /\ gi.cfg.comm_size = 1 /\ gi.cfg.num_sims < 0) =>
           \A k \in 1..Len(calls) :
               /\ calls[k].result = "field"
               /\ calls[k].num_sims_after < 0

\* a direct call of AddCorrelatedShotNoise.setup has returned
NoiseSetupReturned == lib.op = "AddCorrelatedShotNoise.setup" /\ lib.done

\* the fields f and g have the same shells and agree in the pixels 0..99 of
\* each of them
SameFirstPixels(f, g) ==
    /\ Len(f.delta) = Len(g.delta)
    /\ \A i \in 1..Len(f.delta) :
           /\ Len(f.delta[i]) >= 100
           /\ Len(g.delta[i]) >= 100
           /\ SubSeq(f.delta[i], 1, 100) = SubSeq(g.delta[i], 1, 100)

\* C30: setup keeps an explicitly configured seed, and a seed it hashes
\* depends only on the pixels 0..99 of each shell of the initial delta: a
\* field that differs from the one received in pixels of index >= 100 only
\* gets the same seed
C30_SeedFromFirstPixels ==
    NoiseSetupReturned =>
        /\ ~IsNone(lib.args[1].seed) =>
               lib.ret.seed = Some(Seed32(Get(lib.args[1].seed)))
        /\ IsNone(lib.args[1].seed) =>
               \A g \in SeedFields :
                   SameFirstPixels(lib.args[2], g) =>
                       AddCorrelatedShotNoise_setup(lib.args[1], 0, g).seed
                           = lib.ret.seed

C30_Witness ==
    /\ NoiseSetupReturned
    /\ IsNone(lib.args[1].seed)
    /\ lib.args[2] = SeedField(<<R(1), R(1), <<1, 2>>>>)
    /\ SameFirstPixels(lib.args[2], SeedField(<<R(1), R(0), R(0)>>))
    /\ lib.args[2].delta # SeedField(<<R(1), R(0), R(0)>>).delta
    /\ lib.ret.seed = Some(HashField(SeedField(<<R(1), R(0), R(0)>>)))
    /\ lib.ret.seed # Some(HashField(SeedField(<<R(0), R(1), <<1, 2>>>>)))

====
